---- MODULE Spec2Model ----
(***************************************************************************)
(* State-machine model of the OANDA autotrader safety layer:               *)
(*   - TradeLatencyGate   (src/src/oanda_autotrader/trade_latency_gate.py) *)
(*   - evaluate_retrain_gate (src/src/oanda_autotrader/retrain_gate.py)    *)
(*   - StreamMetrics      (src/src/oanda_autotrader/stream_metrics.py)     *)
(*   - the dashboard's threads (src/scripts/dashboard_pygame.py)           *)
(*   - the training loop's gate step                                       *)
(*                           (src/scripts/train_autoencoder_loop.py)       *)
(*   - load_thresholds and suggest_thresholds (trade_latency_gate.py)      *)
(*   - OandaStreamClient._stream (src/src/oanda_autotrader/streaming.py)   *)
(*   - RateLimiter, AsyncRateLimiter                                       *)
(*                           (src/src/oanda_autotrader/rate_limit.py)      *)
(* Latencies are integer milliseconds; floats that arise from division are *)
(* exact rationals <<numerator, denominator>>.                             *)
(* GateSpec, PercentileSpec and PercentileSpecAnyConfig drive the gate     *)
(* with update() calls; RetrainSpec evaluates the retraining gate once on  *)
(* every modelled combination of files and arguments; TrackerSpec and      *)
(* SkewSpec drive the tracker; TrackerRaceSpec and GateRaceSpec interleave *)
(* the stream loop's calls with the UI loop's snapshot(); GateApiSpec runs *)
(* complete update() and snapshot() calls; TrainLoopSpec, ThresholdsSpec   *)
(* and SuggestSpec apply one call to every modelled input; StreamLoopSpec  *)
(* and EventSpec feed the tracker from the stream loop, OutlierSpec with   *)
(* skewed samples and outliers; StreamGateSpec runs the stream loop's pass *)
(* from the tracker into the gate; GateHitSpec is GateApiSpec over the     *)
(* streak configurations; StreamClientSpec runs one _stream generator;     *)
(* RateLimitSpec and DistinctReadingsSpec run wait() calls against the     *)
(* clock.                                                                  *)
(***************************************************************************)
EXTENDS Integers, Sequences, FiniteSets, TLC

VARIABLES
    config,             \* TradeLatencyGate.config (after clamp())
    state,              \* TradeLatencyGate.state (TradeLatencyGateState)
    effective_samples,  \* TradeLatencyGate._effective_samples
    op,                 \* the operation that produced the current state
    hist,               \* history of the sample stream, or of the completed wait() calls (observation only)
    fs,                 \* the files the call reads (evaluate_retrain_gate: with their ages)
    params,             \* the arguments of the call (evaluate_retrain_gate, the training loop, load_thresholds, suggest_thresholds), or the stream client / rate limiter settings
    decision,           \* the RetrainGateDecision of the last evaluation, or the training loop's
    stream_metrics,     \* the StreamMetrics instance (its fields)
    clock,              \* time.time(), in seconds (rate limiter: time.perf_counter(), in half seconds)
    result,             \* what the last call returned (tracker query, load_thresholds, suggest_thresholds)
    calls,              \* how many events and samples the tracker was given, or wait() calls made
    stream,             \* the stream-loop thread: where it is in its call, and its locals; the _stream generator; the rate limiter's fields
    ui                  \* the UI thread: where it is in snapshot(), and what it has read; the callers of wait()

vars == <<config, state, effective_samples, op, hist, fs, params, decision,
          stream_metrics, clock, result, calls, stream, ui>>
trackerVars == <<stream_metrics, clock, result, calls>>
threadVars == <<stream, ui>>
gateVars == <<config, state, effective_samples, hist>>
retrainVars == <<fs, params, decision>>

\* Python Optional[...]: None is the empty tuple, a present value v is <<v>>.
None == <<>>
Some(v) == <<v>>
Val(o) == o[1]

\* the tracker and the two threads, in the specifications that do not run them
NoTracker == stream_metrics = None /\ clock = 0 /\ result = None /\ calls = 0
NoThreads == stream = None /\ ui = None

(***************************************************************************)
(* Bounds of the exploration.                                              *)
(***************************************************************************)
MaxSamples == 5
MaxRecords == 2

RawVals == {-5, 30}
EffVals == {0, 20, 40}

Min(a, b) == IF a < b THEN a ELSE b
Max(a, b) == IF a > b THEN a ELSE b

(***************************************************************************)
(* TradeLatencyGateConfig and clamp().                                     *)
(***************************************************************************)
ClampValue(v, lo, hi) == Min(Max(v, lo), hi)

clamp(cfg) ==
    [cfg EXCEPT
        !.backlog_block_ms = ClampValue(cfg.backlog_block_ms, cfg.block_ms_min, cfg.block_ms_max),
        !.backlog_warn_ms  = ClampValue(cfg.backlog_warn_ms, cfg.warn_ms_min, cfg.warn_ms_max)]

\* Configurations handed to the constructor (before clamp()).  The streak
\* signal and the percentile signal share no state but total_samples, so each
\* family varies the tunables of one signal and fixes those of the other.
BaseConfig ==
    [ backlog_warn_ms              |-> 10,
      backlog_block_ms             |-> 50,
      warn_ms_min                  |-> 20,
      warn_ms_max                  |-> 30,
      block_ms_min                 |-> 20,
      block_ms_max                 |-> 40,
      consecutive_backlog_to_block |-> 2,
      consecutive_good_to_unblock  |-> 2,
      min_samples                  |-> 2,
      effective_window_size        |-> 2,
      warn_p95_hyst_on_ms          |-> 5,
      warn_p95_hyst_off_ms         |-> 5,
      consecutive_p95_to_warn      |-> 2,
      consecutive_p95_to_clear     |-> 2 ]

StreakConfigs ==
    { [BaseConfig EXCEPT
          !.backlog_warn_ms = w, !.backlog_block_ms = b, !.min_samples = m,
          !.consecutive_backlog_to_block = kb, !.consecutive_good_to_unblock = kg] :
      w \in {10, 30}, b \in {20, 50}, m \in {0, 2}, kb \in {1, 2}, kg \in {1, 2} }

PercentileConfigsWith(counts) ==
    { [BaseConfig EXCEPT
          !.backlog_warn_ms = w, !.warn_p95_hyst_off_ms = h, !.min_samples = m,
          !.consecutive_p95_to_warn = kw, !.consecutive_p95_to_clear = kc] :
      w \in {10, 30}, h \in {5, 50}, m \in {0, 2}, kw \in counts, kc \in counts }

PercentileConfigs == PercentileConfigsWith({1, 2})

TradeLatencyGateState ==
    [ blocked                |-> TRUE,
      total_samples          |-> 0,
      backlog_samples        |-> 0,
      outlier_samples        |-> 0,
      skew_samples           |-> 0,
      consecutive_backlog    |-> 0,
      consecutive_good       |-> 0,
      last_raw_ms            |-> None,
      last_effective_ms      |-> None,
      last_backlog           |-> None,
      last_outlier           |-> None,
      last_skew_ms           |-> None,
      last_effective_p95_ms  |-> None,
      last_effective_mean_ms |-> None,
      warn_p95_on_ms         |-> None,
      warn_p95_off_ms        |-> None,
      p95_warn_streak        |-> 0,
      p95_clear_streak       |-> 0,
      warn_p95_latched       |-> FALSE ]

(***************************************************************************)
(* TradeLatencyGate.effective_stats: nearest-rank p95 and mean.            *)
(***************************************************************************)
RECURSIVE SumSeq(_)
SumSeq(s) == IF s = <<>> THEN 0 ELSE Head(s) + SumSeq(Tail(s))

sorted(s) == SortSeq(s, LAMBDA a, b : a < b)

\* Python round(): nearest integer, ties to the even one, of num/den (num >= 0).
RoundHalfEven(num, den) ==
    LET q == num \div den
        r == num % den
    IN  IF 2 * r > den THEN q + 1
        ELSE IF 2 * r < den THEN q
        ELSE IF q % 2 = 0 THEN q ELSE q + 1

\* max(0, int(round(0.95 * (n - 1)))) as a 1-based index into the sorted values.
p95_index(n) == Max(0, RoundHalfEven(95 * (n - 1), 100)) + 1

effective_stats(samples) ==
    IF samples = <<>> THEN <<None, None>>
    ELSE LET values == sorted(samples)
         IN  <<Some(values[p95_index(Len(values))]), Some(<<SumSeq(values), Len(values)>>)>>

(***************************************************************************)
(* TradeLatencyGate.update, in the order of the code.                      *)
(***************************************************************************)
\* lines 94-106: counters and last_* fields
RecordSample(st, raw_ms, effective_ms, backlog, outlier, skew_ms) ==
    [st EXCEPT
        !.total_samples     = @ + 1,
        !.last_raw_ms       = raw_ms,
        !.last_effective_ms = effective_ms,
        !.last_backlog      = Some(backlog),
        !.last_outlier      = Some(outlier),
        !.last_skew_ms      = skew_ms,
        !.skew_samples      = IF skew_ms # None THEN @ + 1 ELSE @,
        !.backlog_samples   = IF backlog THEN @ + 1 ELSE @,
        !.outlier_samples   = IF outlier THEN @ + 1 ELSE @]

\* mutation for C38: a full window drops the newest value, not the oldest
AppendWindow_KeepOldest(samples, effective_ms, cfg) ==
    LET appended == Append(samples, Val(effective_ms))
        n == Len(appended)
        w == cfg.effective_window_size
    IN  IF n > w /\ w > 0 THEN SubSeq(appended, 1, w) ELSE appended

\* lines 109-111: append and keep the last effective_window_size values
\* (a Python slice [-0:] keeps the whole list)
AppendWindow(samples, effective_ms, cfg) ==
    LET appended == Append(samples, Val(effective_ms))
        n == Len(appended)
        w == cfg.effective_window_size
    IN  IF n > w /\ w > 0 THEN SubSeq(appended, n - w + 1, n) ELSE appended

on_threshold(cfg) == cfg.backlog_warn_ms + cfg.warn_p95_hyst_on_ms
off_threshold(cfg) == Max(0, cfg.backlog_warn_ms - cfg.warn_p95_hyst_off_ms)

\* mutation for C6: one threshold instead of two (p95 compared with backlog_warn_ms only)
P95Streaks_OneThreshold(st, eff_p95, cfg) ==
    IF st.total_samples >= cfg.min_samples /\ eff_p95 # None
    THEN IF Val(eff_p95) >= cfg.backlog_warn_ms
         THEN [st EXCEPT
                 !.p95_warn_streak = Min(@ + 1, cfg.consecutive_p95_to_warn),
                 !.p95_clear_streak = 0]
         ELSE [st EXCEPT
                 !.p95_clear_streak = Min(@ + 1, cfg.consecutive_p95_to_clear),
                 !.p95_warn_streak = 0]
    ELSE st

\* lines 119-130: the two p95 streak counters
P95Streaks(st, eff_p95, cfg) ==
    IF st.total_samples >= cfg.min_samples /\ eff_p95 # None
    THEN IF Val(eff_p95) >= on_threshold(cfg)
         THEN [st EXCEPT
                 !.p95_warn_streak = Min(@ + 1, cfg.consecutive_p95_to_warn),
                 !.p95_clear_streak = 0]
         ELSE IF Val(eff_p95) <= off_threshold(cfg)
         THEN [st EXCEPT
                 !.p95_clear_streak = Min(@ + 1, cfg.consecutive_p95_to_clear),
                 !.p95_warn_streak = 0]
         ELSE st
    ELSE st

\* mutation for C7: the latch clears without a clear streak
P95Latch_ClearAtOnce(st, cfg) ==
    LET s1 == IF ~st.warn_p95_latched /\ st.p95_warn_streak >= cfg.consecutive_p95_to_warn
              THEN [st EXCEPT !.warn_p95_latched = TRUE, !.p95_warn_streak = 0]
              ELSE st
    IN  IF s1.warn_p95_latched /\ s1.p95_clear_streak >= 1
        THEN [s1 EXCEPT !.warn_p95_latched = FALSE, !.p95_clear_streak = 0]
        ELSE s1

\* lines 131-136: the latch
P95Latch(st, cfg) ==
    LET s1 == IF ~st.warn_p95_latched /\ st.p95_warn_streak >= cfg.consecutive_p95_to_warn
              THEN [st EXCEPT !.warn_p95_latched = TRUE, !.p95_warn_streak = 0]
              ELSE st
    IN  IF s1.warn_p95_latched /\ s1.p95_clear_streak >= cfg.consecutive_p95_to_clear
        THEN [s1 EXCEPT !.warn_p95_latched = FALSE, !.p95_clear_streak = 0]
        ELSE s1

\* lines 108-136: percentile signal; only for a non-outlier effective value
PercentileSignal(st, samples, cfg) ==
    LET stats == effective_stats(samples)
        s1 == [st EXCEPT
                 !.last_effective_p95_ms  = stats[1],
                 !.last_effective_mean_ms = stats[2],
                 !.warn_p95_on_ms         = Some(on_threshold(cfg)),
                 !.warn_p95_off_ms        = Some(off_threshold(cfg))]
    IN  P95Latch(P95Streaks(s1, stats[1], cfg), cfg)

\* line 92
sample_ms(raw_ms, effective_ms) == IF effective_ms # None THEN effective_ms ELSE raw_ms

\* lines 138-139
backlog_hit(ms, backlog, outlier, cfg) ==
    backlog \/ outlier \/ (ms # None /\ Val(ms) >= cfg.backlog_block_ms)

good_hit(ms, backlog, outlier, cfg) ==
    (~backlog) /\ (~outlier) /\ (ms # None /\ Val(ms) < cfg.backlog_warn_ms)

\* mutation for C4: a bad hit does not reset consecutive_good (line 143 missing)
HitStreaks_KeepGood(st, ms, backlog, outlier, cfg) ==
    IF backlog_hit(ms, backlog, outlier, cfg)
    THEN [st EXCEPT !.consecutive_backlog = @ + 1]
    ELSE IF good_hit(ms, backlog, outlier, cfg)
    THEN [st EXCEPT !.consecutive_good = @ + 1, !.consecutive_backlog = 0]
    ELSE st

\* mutation for C5: a good hit does not reset consecutive_backlog (line 146 missing)
HitStreaks_KeepBacklog(st, ms, backlog, outlier, cfg) ==
    IF backlog_hit(ms, backlog, outlier, cfg)
    THEN [st EXCEPT !.consecutive_backlog = @ + 1, !.consecutive_good = 0]
    ELSE IF good_hit(ms, backlog, outlier, cfg)
    THEN [st EXCEPT !.consecutive_good = @ + 1]
    ELSE st

\* mutation for C33: a sample that is neither hit resets both streaks
HitStreaks_NeitherResets(st, ms, backlog, outlier, cfg) ==
    IF backlog_hit(ms, backlog, outlier, cfg)
    THEN [st EXCEPT !.consecutive_backlog = @ + 1, !.consecutive_good = 0]
    ELSE IF good_hit(ms, backlog, outlier, cfg)
    THEN [st EXCEPT !.consecutive_good = @ + 1, !.consecutive_backlog = 0]
    ELSE [st EXCEPT !.consecutive_good = 0, !.consecutive_backlog = 0]

\* lines 141-146: the two hit streaks
HitStreaks(st, ms, backlog, outlier, cfg) ==
    IF backlog_hit(ms, backlog, outlier, cfg)
    THEN [st EXCEPT !.consecutive_backlog = @ + 1, !.consecutive_good = 0]
    ELSE IF good_hit(ms, backlog, outlier, cfg)
    THEN [st EXCEPT !.consecutive_good = @ + 1, !.consecutive_backlog = 0]
    ELSE st

\* mutation for C1: the cold-start test of line 149 is missing
Blocking_NoColdStart(st, backlog, outlier, cfg) ==
    LET b1 == IF st.consecutive_backlog >= cfg.consecutive_backlog_to_block THEN TRUE
              ELSE IF st.blocked /\ st.consecutive_good >= cfg.consecutive_good_to_unblock THEN FALSE
              ELSE st.blocked
    IN  [st EXCEPT !.blocked = IF backlog \/ outlier THEN TRUE ELSE b1]

\* mutation for C2: the hard block of lines 157-158 is missing
Blocking_NoHardBlock(st, backlog, outlier, cfg) ==
    [st EXCEPT !.blocked =
        IF st.total_samples < cfg.min_samples THEN TRUE
        ELSE IF st.consecutive_backlog >= cfg.consecutive_backlog_to_block THEN TRUE
        ELSE IF st.blocked /\ st.consecutive_good >= cfg.consecutive_good_to_unblock THEN FALSE
        ELSE st.blocked]

\* mutation for C3: line 153 unblocks on any good streak, however short
Blocking_ShortStreak(st, backlog, outlier, cfg) ==
    LET b1 == IF st.total_samples < cfg.min_samples THEN TRUE
              ELSE IF st.consecutive_backlog >= cfg.consecutive_backlog_to_block THEN TRUE
              ELSE IF st.blocked /\ st.consecutive_good >= 1 THEN FALSE
              ELSE st.blocked
    IN  [st EXCEPT !.blocked = IF backlog \/ outlier THEN TRUE ELSE b1]

\* mutation for C34: the first bad hit of a streak already blocks
Blocking_AnyBadHit(st, backlog, outlier, cfg) ==
    LET b1 == IF st.total_samples < cfg.min_samples THEN TRUE
              ELSE IF st.consecutive_backlog >= 1 THEN TRUE
              ELSE IF st.blocked /\ st.consecutive_good >= cfg.consecutive_good_to_unblock THEN FALSE
              ELSE st.blocked
    IN  [st EXCEPT !.blocked = IF backlog \/ outlier THEN TRUE ELSE b1]

\* lines 148-158: the blocked bit
Blocking(st, backlog, outlier, cfg) ==
    LET b1 == IF st.total_samples < cfg.min_samples THEN TRUE
              ELSE IF st.consecutive_backlog >= cfg.consecutive_backlog_to_block THEN TRUE
              ELSE IF st.blocked /\ st.consecutive_good >= cfg.consecutive_good_to_unblock THEN FALSE
              ELSE st.blocked
    IN  [st EXCEPT !.blocked = IF backlog \/ outlier THEN TRUE ELSE b1]

\* the state after update() for a call that carries a latency value
UpdatedState(st, samples, raw_ms, effective_ms, backlog, outlier, skew_ms, cfg) ==
    LET s1 == RecordSample(st, raw_ms, effective_ms, backlog, outlier, skew_ms)
        s2 == IF effective_ms # None /\ ~outlier
              THEN PercentileSignal(s1, AppendWindow(samples, effective_ms, cfg), cfg)
              ELSE s1
        s3 == HitStreaks(s2, sample_ms(raw_ms, effective_ms), backlog, outlier, cfg)
    IN  Blocking(s3, backlog, outlier, cfg)

UpdatedWindow(samples, effective_ms, outlier, cfg) ==
    IF effective_ms # None /\ ~outlier
    THEN AppendWindow(samples, effective_ms, cfg)
    ELSE samples

(***************************************************************************)
(* History of the sample stream, in the words of the specification: what   *)
(* each processed sample was, and the streaks counted from the samples     *)
(* themselves (not from the gate's counters).                              *)
(***************************************************************************)
IsBadHit(ms, backlog, outlier, cfg) ==
    backlog \/ outlier \/ Val(ms) >= cfg.backlog_block_ms

IsGoodHit(ms, backlog, outlier, cfg) ==
    /\ ~backlog
    /\ ~outlier
    /\ Val(ms) < cfg.backlog_block_ms
    /\ Val(ms) < cfg.backlog_warn_ms

HistInit ==
    [ hit         |-> "none",   \* the last sample: "bad", "good" or "neither"
      bad_run     |-> 0,        \* length of the current run of bad hits
      good_run    |-> 0,        \* length of the current run of good hits
      good_streak |-> 0,        \* good hits since the last bad hit
      sticky      |-> FALSE,    \* a full bad run happened, no full good streak since
      prev_blocked |-> TRUE,    \* blocked, before the last sample was processed
      prev_latched |-> FALSE,   \* warn_p95_latched, before the last sample was processed
      p95_obs     |-> None,     \* the p95 this update observed, if it observed one
      warn_obs    |-> 0,        \* p95 >= on observations, reset by p95 <= off, capped
      clear_obs   |-> 0 ]       \* p95 <= off observations, reset by p95 >= on, capped

HistAfter(h, before, st, raw_ms, effective_ms, backlog, outlier, cfg) ==
    LET ms   == sample_ms(raw_ms, effective_ms)
        bad  == IsBadHit(ms, backlog, outlier, cfg)
        good == IsGoodHit(ms, backlog, outlier, cfg)
        badRun  == IF bad THEN Min(h.bad_run + 1, cfg.consecutive_backlog_to_block) ELSE 0
        goodRun == IF good THEN Min(h.good_run + 1, cfg.consecutive_good_to_unblock) ELSE 0
        goodStreak == IF bad THEN 0
                      ELSE IF good THEN Min(h.good_streak + 1, cfg.consecutive_good_to_unblock)
                      ELSE h.good_streak
        observed == effective_ms # None /\ ~outlier /\ st.total_samples >= cfg.min_samples
        p95  == IF effective_ms # None /\ ~outlier THEN st.last_effective_p95_ms ELSE None
        high == observed /\ Val(p95) >= on_threshold(cfg)
        low  == observed /\ Val(p95) <= off_threshold(cfg)
    IN  [ hit         |-> IF bad THEN "bad" ELSE IF good THEN "good" ELSE "neither",
          bad_run     |-> badRun,
          good_run    |-> goodRun,
          good_streak |-> goodStreak,
          sticky      |-> IF bad /\ badRun >= cfg.consecutive_backlog_to_block THEN TRUE
                          ELSE IF goodStreak >= cfg.consecutive_good_to_unblock THEN FALSE
                          ELSE h.sticky,
          prev_blocked |-> before.blocked,
          prev_latched |-> before.warn_p95_latched,
          p95_obs     |-> p95,
          warn_obs    |-> IF high THEN Min(h.warn_obs + 1, cfg.consecutive_p95_to_warn)
                          ELSE IF low THEN 0 ELSE h.warn_obs,
          clear_obs   |-> IF low THEN Min(h.clear_obs + 1, cfg.consecutive_p95_to_clear)
                          ELSE IF high THEN 0 ELSE h.clear_obs ]

(***************************************************************************)
(* The gate as a state machine.                                            *)
(***************************************************************************)
Optional(S) == {None} \cup {Some(v) : v \in S}

\* TradeLatencyGate.__init__
GateInit(cfgs) ==
    /\ config \in {clamp(c) : c \in cfgs}
    /\ state = TradeLatencyGateState
    /\ effective_samples = <<>>
    /\ op = "new"
    /\ hist = HistInit
    /\ fs = None
    /\ params = None
    /\ decision = None
    /\ NoTracker
    /\ NoThreads

\* mutation for C35: a call without latency still applies its flags
update_IgnoredCallFlags(raw_ms, effective_ms, backlog, outlier, skew_ms) ==
    IF raw_ms = None /\ effective_ms = None
    THEN /\ op' = "update_ignored"
         /\ state' = [state EXCEPT
                         !.last_backlog = Some(backlog),
                         !.last_outlier = Some(outlier),
                         !.blocked = @ \/ backlog \/ outlier]
         /\ UNCHANGED <<config, effective_samples, hist, retrainVars, trackerVars, threadVars>>
    ELSE /\ state.total_samples < MaxSamples
         /\ state' = UpdatedState(state, effective_samples, raw_ms, effective_ms,
                                  backlog, outlier, skew_ms, config)
         /\ effective_samples' = UpdatedWindow(effective_samples, effective_ms, outlier, config)
         /\ hist' = HistAfter(hist, state, state', raw_ms, effective_ms, backlog, outlier, config)
         /\ op' = "update"
         /\ UNCHANGED <<config, retrainVars, trackerVars, threadVars>>


\* TradeLatencyGate.update
update(raw_ms, effective_ms, backlog, outlier, skew_ms) ==
    IF raw_ms = None /\ effective_ms = None
    THEN /\ op' = "update_ignored"
         /\ UNCHANGED <<gateVars, retrainVars, trackerVars, threadVars>>
    ELSE /\ state.total_samples < MaxSamples
         /\ state' = UpdatedState(state, effective_samples, raw_ms, effective_ms,
                                  backlog, outlier, skew_ms, config)
         /\ effective_samples' = UpdatedWindow(effective_samples, effective_ms, outlier, config)
         /\ hist' = HistAfter(hist, state, state', raw_ms, effective_ms, backlog, outlier, config)
         /\ op' = "update"
         /\ UNCHANGED <<config, retrainVars, trackerVars, threadVars>>

\* the calls the model makes to update()
Call(raw_ms, effective_ms, backlog, outlier, skew_ms) ==
    [ raw_ms |-> raw_ms, effective_ms |-> effective_ms,
      backlog |-> backlog, outlier |-> outlier, skew_ms |-> skew_ms ]

Calls ==
    \* a clock-skewed sample with each effective latency
    { Call(Some(-5), Some(v), FALSE, FALSE, Some(5)) : v \in EffVals }
    \* a sample without an effective latency
    \cup { Call(Some(r), None, FALSE, FALSE, None) : r \in RawVals }
    \* flagged samples, with a low and with a high latency
    \cup { Call(Some(30), Some(0), TRUE, FALSE, None),
           Call(Some(30), Some(0), FALSE, TRUE, None),
           Call(Some(30), Some(40), TRUE, TRUE, None) }
    \* calls that carry no latency at all
    \cup { Call(None, None, b, o, None) : b \in BOOLEAN, o \in BOOLEAN }

GateNext ==
    \E c \in Calls : update(c.raw_ms, c.effective_ms, c.backlog, c.outlier, c.skew_ms)

GateSpec == GateInit(StreakConfigs) /\ [][GateNext]_vars

PercentileSpec == GateInit(PercentileConfigs) /\ [][GateNext]_vars

PercentileSpecAnyConfig == GateInit(PercentileConfigsWith({0, 1, 2})) /\ [][GateNext]_vars

(***************************************************************************)
(* Properties of the execution latency gate.                               *)
(***************************************************************************)
\* a step of update() that processed a sample
SampleStep == state'.total_samples = state.total_samples + 1

Flagged(st) == st.last_backlog = Some(TRUE) \/ st.last_outlier = Some(TRUE)

\* C1: cold start is fail-closed: in every reachable state, initial state
\* included, total_samples < min_samples implies blocked.
C1_ColdStartBlocked ==
    state.total_samples < config.min_samples => state.blocked

\* a sample completing a full good streak was processed during cold start
C1_Witness ==
    /\ op = "update"
    /\ state.total_samples < config.min_samples
    /\ hist.hit = "good"
    /\ state.consecutive_good >= config.consecutive_good_to_unblock
    /\ state.blocked

\* C2: a sample passed to update() with backlog or outlier set leaves the gate
\* blocked, whatever the gate state was before, unblocked ones included.
C2_FlagForcesBlock ==
    [][(SampleStep /\ Flagged(state')) => state'.blocked]_vars

\* an unblocked gate past cold start got a flagged sample with a low latency
C2_Witness ==
    /\ op = "update"
    /\ ~hist.prev_blocked
    /\ Flagged(state)
    /\ state.last_effective_ms = Some(0)
    /\ state.consecutive_backlog < config.consecutive_backlog_to_block
    /\ state.blocked

\* C3: an update changes blocked from true to false only if afterwards
\* total_samples >= min_samples, consecutive_good >= consecutive_good_to_unblock,
\* consecutive_backlog < consecutive_backlog_to_block and the sample has
\* neither flag.
C3_UnblockIsDeliberate ==
    [][(state.blocked /\ ~state'.blocked) =>
          /\ SampleStep
          /\ state'.total_samples >= config.min_samples
          /\ state'.consecutive_good >= config.consecutive_good_to_unblock
          /\ state'.consecutive_backlog < config.consecutive_backlog_to_block
          /\ ~Flagged(state')]_vars

\* the gate went from blocked to unblocked after an earlier flagged sample
C3_Witness ==
    /\ op = "update"
    /\ hist.prev_blocked
    /\ ~state.blocked
    /\ state.backlog_samples > 0

\* C4: after a full run of bad hits the gate is blocked, and it stays blocked
\* through every later update until the good-hit streak is full.
C4_StreakBlockSticky ==
    hist.sticky => state.blocked

\* a good sample arrived after an unflagged full bad run; the gate, past cold
\* start, is still blocked
C4_Witness ==
    /\ op = "update"
    /\ hist.sticky
    /\ hist.hit = "good"
    /\ state.backlog_samples = 0
    /\ state.outlier_samples = 0
    /\ state.total_samples >= config.min_samples
    /\ state.blocked

\* C5: past cold start, a full run of consecutive good hits leaves the gate
\* unblocked, from whatever state the run began in.
C5_GateRecovers ==
    (hist.good_run >= config.consecutive_good_to_unblock
        /\ state.total_samples >= config.min_samples) => ~state.blocked

\* the gate was blocked by a full bad run and by a flagged sample, and a full
\* good run unblocked it
C5_Witness ==
    /\ op = "update"
    /\ hist.good_run >= config.consecutive_good_to_unblock
    /\ hist.prev_blocked
    /\ state.backlog_samples + state.outlier_samples > 0
    /\ ~state.blocked

InBand(p95, cfg) ==
    p95 # None /\ off_threshold(cfg) < Val(p95) /\ Val(p95) < on_threshold(cfg)

\* C6: an update whose p95 lies strictly between the off and the on threshold
\* never changes warn_p95_latched.
C6_InBandHoldsLatch ==
    [][(SampleStep /\ InBand(hist'.p95_obs, config)) =>
          state'.warn_p95_latched = state.warn_p95_latched]_vars

\* an in-band p95 was observed while the latch was on and a clear streak had begun
C6_Witness ==
    /\ op = "update"
    /\ InBand(hist.p95_obs, config)
    /\ state.total_samples >= config.min_samples
    /\ state.warn_p95_latched
    /\ state.p95_clear_streak > 0

\* C7: the latch turns on exactly in the update where it is off and the warn
\* streak reaches consecutive_p95_to_warn, and off exactly in the update where it
\* is on and the clear streak reaches consecutive_p95_to_clear.  The streaks are
\* those of the observed p95 values past cold start (hist.warn_obs, clear_obs).
C7_LatchRule ==
    [][/\ (~state.warn_p95_latched /\ state'.warn_p95_latched)
            <=> (/\ ~state.warn_p95_latched
                 /\ SampleStep
                 /\ hist'.p95_obs # None
                 /\ hist'.warn_obs >= config.consecutive_p95_to_warn)
       /\ (state.warn_p95_latched /\ ~state'.warn_p95_latched)
            <=> (/\ state.warn_p95_latched
                 /\ SampleStep
                 /\ hist'.p95_obs # None
                 /\ hist'.clear_obs >= config.consecutive_p95_to_clear)]_vars

\* the latch was on and a full clear streak of two observations turned it off
C7_Witness ==
    /\ op = "update"
    /\ hist.prev_latched
    /\ ~state.warn_p95_latched
    /\ config.consecutive_p95_to_clear = 2

\* C8: in every configuration the percentile warning is off, and both p95
\* streak counters are zero, while total_samples < min_samples.
C8_NoWarnInColdStart ==
    state.total_samples < config.min_samples =>
        /\ ~state.warn_p95_latched
        /\ state.p95_warn_streak = 0
        /\ state.p95_clear_streak = 0

(***************************************************************************)
(* Retraining gate (retrain_gate.py).  Floats are exact rationals          *)
(* <<numerator, denominator>> with a positive denominator.                 *)
(***************************************************************************)
Abs(x) == IF x < 0 THEN -x ELSE x

RatLess(a, b) == a[1] * b[2] < b[1] * a[2]
RatAdd(a, b) == <<a[1] * b[2] + b[1] * a[2], a[2] * b[2]>>
RatDivInt(a, n) == <<a[1], a[2] * n>>
RatMulInt(a, n) == <<a[1] * n, a[2]>>

RECURSIVE RatSum(_)
RatSum(s) == IF s = <<>> THEN <<0, 1>> ELSE RatAdd(Head(s), RatSum(Tail(s)))

\* sum(values) / len(values)
RatMean(s) == RatDivInt(RatSum(s), Len(s))

\* statistics.median of a non-empty list of integers
median(s) ==
    LET v == sorted(s)
        n == Len(v)
    IN  IF n % 2 = 1 THEN <<v[(n + 1) \div 2], 1>>
        ELSE <<v[n \div 2] + v[n \div 2 + 1], 2>>

\* Python truthiness of an optional number, and the operator "or"
Truthy(o) == o # None /\ Val(o) # 0
PyOr(a, b) == IF Truthy(a) THEN a ELSE b

\* read_last_jsonl: the parsable lines, then records[-limit:]
\* (a Python slice [-0:] keeps the whole list)
RECURSIVE ParsedLines(_)
ParsedLines(lines) ==
    IF lines = <<>> THEN <<>>
    ELSE IF Head(lines).ok THEN <<Head(lines)>> \o ParsedLines(Tail(lines))
    ELSE ParsedLines(Tail(lines))

read_last_jsonl(file, limit) ==
    IF ~file.exists THEN <<>>
    ELSE LET records == ParsedLines(file.lines)
             n == Len(records)
         IN  IF limit > 0 /\ n > limit THEN SubSeq(records, n - limit + 1, n) ELSE records

\* mutation for C20: a missing file is taken to be fresh
is_file_stale_MissingIsFresh(file, max_age_s) ==
    IF ~file.exists THEN FALSE ELSE file.age > max_age_s

\* is_file_stale
is_file_stale(file, max_age_s) ==
    IF ~file.exists THEN TRUE ELSE file.age > max_age_s

\* latest_candle_age: None without files, without a parsable last line or
\* without a parsable "time"; else max(0, now - ts)
latest_candle_age(candles) ==
    IF ~candles.files THEN None
    ELSE IF ~candles.last_line_ok THEN None
    ELSE IF candles.time_age = None THEN None
    ELSE Some(Max(0, Val(candles.time_age)))

\* _last_json_line of the monitor log
last_json_line(file) ==
    IF ~file.exists THEN None
    ELSE IF ~file.last.ok THEN None
    ELSE Some(file.last)

\* read_trade_gate_blocked; a gate entry is None, or <<b>> with b its
\* "blocked" value (None when the key is absent)
read_trade_gate_blocked(monitor) ==
    LET last == last_json_line(monitor)
    IN  IF last = None THEN FALSE
        ELSE LET line == Val(last)
                 gate == IF line.trade_gate # None THEN line.trade_gate
                         ELSE line.rest_trade_gate
             IN  IF gate = None THEN FALSE
                 ELSE Val(gate) # None /\ Val(Val(gate)) = TRUE

\* compute_score_metrics, per record
predicted(item) == PyOr(PyOr(item.predicted, item.mean), item.forecast)
previous(item) == PyOr(item.prev, item.baseline)

RECURSIVE Diffs(_)
Diffs(results) ==
    IF results = <<>> THEN <<>>
    ELSE LET item == Head(results)
         IN  (IF item.actual # None /\ predicted(item) # None
              THEN << <<Abs(Val(item.actual) - Val(predicted(item))), 1>> >>
              ELSE <<>>) \o Diffs(Tail(results))

RECURSIVE Moves(_)
Moves(results) ==
    IF results = <<>> THEN <<>>
    ELSE LET item == Head(results)
         IN  (IF item.actual # None /\ previous(item) # None
              THEN <<Abs(Val(item.actual) - Val(previous(item)))>>
              ELSE <<>>) \o Moves(Tail(results))

RecordMae(rec) ==
    IF rec.mae # None THEN <<Val(rec.mae), 1>>
    ELSE IF rec.mean_abs_error # None THEN <<Val(rec.mean_abs_error), 1>>
    ELSE RatMean(Diffs(rec.results))

HasMae(rec) ==
    rec.mae # None \/ rec.mean_abs_error # None \/ Diffs(rec.results) # <<>>

RecordField(rec) ==
    IF rec.mae # None THEN "mae"
    ELSE IF rec.mean_abs_error # None THEN "mean_abs_error"
    ELSE "results_actual_pred"

RECURSIVE MaeValues(_)
MaeValues(records) ==
    IF records = <<>> THEN <<>>
    ELSE (IF HasMae(Head(records)) THEN <<RecordMae(Head(records))>> ELSE <<>>)
         \o MaeValues(Tail(records))

RECURSIVE AbsMoves(_)
AbsMoves(records) ==
    IF records = <<>> THEN <<>>
    ELSE Moves(Head(records).results) \o AbsMoves(Tail(records))

\* compute_score_metrics: <<mae, median_abs_move, fields_used>>
compute_score_metrics(records) ==
    IF records = <<>> THEN <<None, None, {}>>
    ELSE LET mae_values == MaeValues(records)
             abs_moves  == AbsMoves(records)
             fields == { RecordField(records[i]) : i \in {j \in 1..Len(records) : HasMae(records[j])} }
                       \cup (IF abs_moves # <<>> THEN {"results_actual_prev"} ELSE {})
         IN  << IF mae_values # <<>> THEN Some(RatMean(mae_values)) ELSE None,
                IF abs_moves # <<>> THEN Some(median(abs_moves)) ELSE None,
                fields >>

\* lines 289-291
mae_threshold(median_abs_move, p) ==
    IF median_abs_move # None
    THEN RatMulInt(Val(median_abs_move), p.volatility_scale)
    ELSE p.fixed_mae_threshold

\* mutation for C9: the trade gate is consulted before staleness
first_rule_BlockedFirst(coverage, mae, median_abs_move, monitor_stale, pred_stale, scores_stale, stale, blocked, p) ==
    IF pred_stale /\ ~monitor_stale /\ ~blocked /\ (coverage = None \/ scores_stale)
    THEN "bootstrap_pred"
    ELSE IF coverage = None THEN "no_scores"
    ELSE IF blocked THEN "trade_gate_blocked"
    ELSE IF stale THEN "stale_pipeline"
    ELSE IF RatLess(Val(coverage), p.min_coverage) THEN "low_coverage"
    ELSE IF mae # None /\ RatLess(mae_threshold(median_abs_move, p), Val(mae)) THEN "mae_high"
    ELSE "metrics_ok"

\* mutation for C10: staleness is judged from the monitor log alone
first_rule_MonitorOnly(coverage, mae, median_abs_move, monitor_stale, pred_stale, scores_stale, stale, blocked, p) ==
    IF pred_stale /\ ~monitor_stale /\ ~blocked /\ (coverage = None \/ scores_stale)
    THEN "bootstrap_pred"
    ELSE IF coverage = None THEN "no_scores"
    ELSE IF monitor_stale THEN "stale_pipeline"
    ELSE IF blocked THEN "trade_gate_blocked"
    ELSE IF RatLess(Val(coverage), p.min_coverage) THEN "low_coverage"
    ELSE IF mae # None /\ RatLess(mae_threshold(median_abs_move, p), Val(mae)) THEN "mae_high"
    ELSE "metrics_ok"

\* mutation for C11: staleness is consulted before the absence of scores
first_rule_StaleBeforeNoScores(coverage, mae, median_abs_move, monitor_stale, pred_stale, scores_stale, stale, blocked, p) ==
    IF pred_stale /\ ~monitor_stale /\ ~blocked /\ (coverage = None \/ scores_stale)
    THEN "bootstrap_pred"
    ELSE IF stale THEN "stale_pipeline"
    ELSE IF coverage = None THEN "no_scores"
    ELSE IF blocked THEN "trade_gate_blocked"
    ELSE IF RatLess(Val(coverage), p.min_coverage) THEN "low_coverage"
    ELSE IF mae # None /\ RatLess(mae_threshold(median_abs_move, p), Val(mae)) THEN "mae_high"
    ELSE "metrics_ok"

\* mutation for C12: low coverage is consulted before the trade gate
first_rule_CoverageBeforeBlocked(coverage, mae, median_abs_move, monitor_stale, pred_stale, scores_stale, stale, blocked, p) ==
    IF pred_stale /\ ~monitor_stale /\ ~blocked /\ (coverage = None \/ scores_stale)
    THEN "bootstrap_pred"
    ELSE IF coverage = None THEN "no_scores"
    ELSE IF stale THEN "stale_pipeline"
    ELSE IF RatLess(Val(coverage), p.min_coverage) THEN "low_coverage"
    ELSE IF blocked THEN "trade_gate_blocked"
    ELSE IF mae # None /\ RatLess(mae_threshold(median_abs_move, p), Val(mae)) THEN "mae_high"
    ELSE "metrics_ok"

\* lines 189-329: the chain of tests, by the reason of the branch taken
first_rule(coverage, mae, median_abs_move, monitor_stale, pred_stale, scores_stale, stale, blocked, p) ==
    IF pred_stale /\ ~monitor_stale /\ ~blocked /\ (coverage = None \/ scores_stale)
    THEN "bootstrap_pred"
    ELSE IF coverage = None THEN "no_scores"
    ELSE IF stale THEN "stale_pipeline"
    ELSE IF blocked THEN "trade_gate_blocked"
    ELSE IF RatLess(Val(coverage), p.min_coverage) THEN "low_coverage"
    ELSE IF mae # None /\ RatLess(mae_threshold(median_abs_move, p), Val(mae)) THEN "mae_high"
    ELSE "metrics_ok"

\* evaluate_retrain_gate
evaluate_retrain_gate(f, p) ==
    LET records == read_last_jsonl(f.scores, p.window_n)
        metrics == compute_score_metrics(records)
        mae == metrics[1]
        median_abs_move == metrics[2]
        fields_used == metrics[3]
        coverage == IF records # <<>> THEN Some(<<Len(records), Max(p.window_n, 1)>>) ELSE None
        monitor_stale == is_file_stale(f.monitor, p.stale_monitor_s)
        pred_stale == is_file_stale(f.predictions, p.stale_pred_s)
        scores_stale == is_file_stale(f.scores, p.stale_score_s)
        candle_age == latest_candle_age(f.candles)
        stale == (monitor_stale \/ pred_stale \/ scores_stale)
                 \/ candle_age = None \/ Val(candle_age) > p.stale_candle_s
        blocked == read_trade_gate_blocked(f.monitor)
        reason == first_rule(coverage, mae, median_abs_move, monitor_stale, pred_stale,
                             scores_stale, stale, blocked, p)
        details == [ records |-> Len(records), candle_age |-> candle_age,
                     monitor_stale |-> monitor_stale, pred_stale |-> pred_stale,
                     scores_stale |-> scores_stale ]
    IN  [ allow         |-> reason \in {"bootstrap_pred", "low_coverage", "mae_high"},
          reason        |-> reason,
          coverage      |-> IF reason \in {"bootstrap_pred", "no_scores"} /\ coverage = None
                            THEN Some(<<0, 1>>) ELSE coverage,
          mae           |-> IF reason = "no_scores" THEN None ELSE mae,
          mae_threshold |-> IF reason \in {"mae_high", "metrics_ok"}
                            THEN Some(mae_threshold(median_abs_move, p)) ELSE None,
          window_n      |-> IF reason = "no_scores" THEN p.window_n ELSE Len(records),
          fields_used   |-> fields_used,
          blocked       |-> blocked,
          stale         |-> stale,
          details       |-> details ]

(***************************************************************************)
(* The inputs of one evaluation.                                           *)
(***************************************************************************)
StaleLimit == 100
Ages == {StaleLimit, StaleLimit + 1}

Item(actual, pred, mean, prev, baseline) ==
    [ actual |-> actual, predicted |-> pred, mean |-> mean, forecast |-> None,
      prev |-> prev, baseline |-> baseline ]

ScoreLine(ok, mae, mean_abs_error, results) ==
    [ ok |-> ok, mae |-> mae, mean_abs_error |-> mean_abs_error, results |-> results ]

ScoreLines ==
    { ScoreLine(FALSE, None, None, <<>>),          \* not JSON
      ScoreLine(TRUE, None, None, <<>>),           \* a record without error fields
      ScoreLine(TRUE, Some(2), None, <<>>),
      ScoreLine(TRUE, None, Some(10), <<>>),
      ScoreLine(TRUE, None, None,
                << Item(Some(10), Some(12), None, Some(8), None) >>),
      ScoreLine(TRUE, None, None,
                << Item(Some(10), Some(0), Some(20), Some(0), Some(4)),
                   Item(Some(10), None, None, None, Some(9)) >>) }

RECURSIVE SeqsUpTo(_, _)
SeqsUpTo(S, n) ==
    IF n = 0 THEN {<<>>}
    ELSE LET shorter == SeqsUpTo(S, n - 1)
         IN  shorter \cup { Append(q, x) : q \in shorter, x \in S }

ScoreFiles ==
    { [exists |-> FALSE, age |-> 0, lines |-> <<>>] }
    \cup [ exists : {TRUE}, age : Ages, lines : SeqsUpTo(ScoreLines, MaxRecords) ]

GateEntry(b) == Some(b)
MonitorLine(ok, trade_gate, rest_trade_gate) ==
    [ ok |-> ok, trade_gate |-> trade_gate, rest_trade_gate |-> rest_trade_gate ]

MonitorLines ==
    { MonitorLine(FALSE, None, None),                        \* empty or not JSON
      MonitorLine(TRUE, None, None),                         \* no trade_gate entry
      MonitorLine(TRUE, GateEntry(Some(TRUE)), None),
      MonitorLine(TRUE, GateEntry(Some(FALSE)), None),
      MonitorLine(TRUE, None, GateEntry(Some(TRUE))),
      MonitorLine(TRUE, GateEntry(None), GateEntry(Some(TRUE))) }

MonitorFiles ==
    { [exists |-> FALSE, age |-> 0, last |-> MonitorLine(FALSE, None, None)] }
    \cup [ exists : {TRUE}, age : Ages, last : MonitorLines ]

PredictionFiles ==
    { [exists |-> FALSE, age |-> 0] } \cup [ exists : {TRUE}, age : Ages ]

CandleDirs ==
    { [files |-> FALSE, last_line_ok |-> FALSE, time_age |-> None],
      [files |-> TRUE, last_line_ok |-> FALSE, time_age |-> None],
      [files |-> TRUE, last_line_ok |-> TRUE, time_age |-> None] }
    \cup { [files |-> TRUE, last_line_ok |-> TRUE, time_age |-> Some(a)] : a \in Ages \cup {-3} }

FileSystems ==
    [ scores : ScoreFiles, monitor : MonitorFiles,
      predictions : PredictionFiles, candles : CandleDirs ]

Arguments ==
    [ window_n            : {0, 1, 2, 4},
      min_coverage        : {<<1, 2>>, <<1, 1>>},
      fixed_mae_threshold : {<<5, 1>>},
      volatility_scale    : {1, 2},
      stale_monitor_s     : {StaleLimit},
      stale_pred_s        : {StaleLimit},
      stale_score_s       : {StaleLimit},
      stale_candle_s      : {StaleLimit} ]

RetrainInit ==
    /\ config = clamp(BaseConfig)
    /\ state = TradeLatencyGateState
    /\ effective_samples = <<>>
    /\ hist = HistInit
    /\ op = "new"
    /\ fs \in FileSystems
    /\ params \in Arguments
    /\ decision = None
    /\ NoTracker
    /\ NoThreads

\* one call of evaluate_retrain_gate
Evaluate ==
    /\ op = "new"
    /\ decision' = evaluate_retrain_gate(fs, params)
    /\ op' = "evaluate"
    /\ UNCHANGED <<gateVars, fs, params, trackerVars, threadVars>>

RetrainNext == Evaluate

RetrainSpec == RetrainInit /\ [][RetrainNext]_vars

(***************************************************************************)
(* Properties of the retraining gate.                                      *)
(***************************************************************************)
\* an artifact is stale when it is absent or older than its limit
PredictionsStale == ~fs.predictions.exists \/ fs.predictions.age > params.stale_pred_s
MonitorStale == ~fs.monitor.exists \/ fs.monitor.age > params.stale_monitor_s
ScoresStale == ~fs.scores.exists \/ fs.scores.age > params.stale_score_s
CandlesStale ==
    \/ ~fs.candles.files
    \/ ~fs.candles.last_line_ok
    \/ fs.candles.time_age = None
    \/ Val(fs.candles.time_age) > params.stale_candle_s
AnyArtifactStale == PredictionsStale \/ MonitorStale \/ ScoresStale \/ CandlesStale

ScoreRecords == read_last_jsonl(fs.scores, params.window_n)
CoverageNull == ScoreRecords = <<>>
CoverageLow ==
    Len(ScoreRecords) * params.min_coverage[2]
        < params.min_coverage[1] * Max(params.window_n, 1)
Mae == compute_score_metrics(ScoreRecords)[1]
MedianMove == compute_score_metrics(ScoreRecords)[2]
MaeHigh ==
    /\ Mae # None
    /\ IF MedianMove # None
       THEN RatLess(RatMulInt(Val(MedianMove), params.volatility_scale), Val(Mae))
       ELSE RatLess(params.fixed_mae_threshold, Val(Mae))
GateBlocked == decision.blocked

BootstrapCase ==
    PredictionsStale /\ ~MonitorStale /\ ~GateBlocked /\ (CoverageNull \/ ScoresStale)

\* C9: the decision carries the reason and the verdict of the first rule, in
\* the order bootstrap_pred (allow), no_scores (deny), stale_pipeline (deny),
\* trade_gate_blocked (deny), low_coverage (allow), mae_high (allow),
\* metrics_ok (deny), whose condition holds.
C9_RulePrecedence ==
    op = "evaluate" =>
        <<decision.reason, decision.allow>> =
            IF BootstrapCase THEN <<"bootstrap_pred", TRUE>>
            ELSE IF CoverageNull THEN <<"no_scores", FALSE>>
            ELSE IF AnyArtifactStale THEN <<"stale_pipeline", FALSE>>
            ELSE IF GateBlocked THEN <<"trade_gate_blocked", FALSE>>
            ELSE IF CoverageLow THEN <<"low_coverage", TRUE>>
            ELSE IF MaeHigh THEN <<"mae_high", TRUE>>
            ELSE <<"metrics_ok", FALSE>>

\* staleness won over a blocked gate, low coverage and a high MAE
C9_Witness ==
    /\ op = "evaluate"
    /\ decision.reason = "stale_pipeline"
    /\ GateBlocked
    /\ CoverageLow
    /\ MaeHigh

\* an artifact that exists and is older than its limit
AnyArtifactTooOld ==
    \/ fs.predictions.exists /\ fs.predictions.age > params.stale_pred_s
    \/ fs.monitor.exists /\ fs.monitor.age > params.stale_monitor_s
    \/ fs.scores.exists /\ fs.scores.age > params.stale_score_s
    \/ /\ fs.candles.files /\ fs.candles.last_line_ok /\ fs.candles.time_age # None
       /\ Val(fs.candles.time_age) > params.stale_candle_s

\* C10 as claimed: whenever one of the four artifacts is older than its
\* staleness limit, allow == false.
C10_StaleNeverAllows ==
    (op = "evaluate" /\ AnyArtifactTooOld) => ~decision.allow

\* C10 as amended: whenever one of the four artifacts is stale (older than
\* its limit, or absent), allow == false, except in the bootstrap case
\* (predictions stale, monitor fresh, gate not blocked, and no scoring record
\* or a stale scoring log), where the decision is allow.
C10_StaleDeniesUnlessBootstrap ==
    (op = "evaluate" /\ AnyArtifactStale) =>
        (decision.allow <=> BootstrapCase)

\* only the candle file is stale; coverage is full, the gate is open and the
\* MAE is high, and the decision is deny
C10_Witness ==
    /\ op = "evaluate"
    /\ CandlesStale
    /\ ~PredictionsStale /\ ~MonitorStale /\ ~ScoresStale
    /\ ~GateBlocked
    /\ ~CoverageNull /\ ~CoverageLow
    /\ MaeHigh
    /\ ~decision.allow

\* the scoring log is absent, or present without a single line
ScoreLogEmptyOrAbsent == ~fs.scores.exists \/ fs.scores.lines = <<>>

\* C11 as claimed: whenever the scoring log is empty or absent, the reason
\* of the decision is "no_scores", whatever the other artifacts and the
\* execution gate are.
C11_EmptyLogGivesNoScores ==
    (op = "evaluate" /\ ScoreLogEmptyOrAbsent) => decision.reason = "no_scores"

\* C11 as amended: whenever the scoring log is empty or absent, the decision
\* is deny with reason "no_scores", except in the bootstrap case (predictions
\* stale, monitor fresh, gate not blocked), where it is allow with reason
\* "bootstrap_pred".
C11_EmptyLogNoScoresUnlessBootstrap ==
    (op = "evaluate" /\ ScoreLogEmptyOrAbsent) =>
        <<decision.reason, decision.allow>> =
            IF PredictionsStale /\ ~MonitorStale /\ ~GateBlocked
            THEN <<"bootstrap_pred", TRUE>>
            ELSE <<"no_scores", FALSE>>

\* the scoring log is absent, the monitor log is stale and reports a blocked
\* gate, and the decision is no_scores
C11_Witness ==
    /\ op = "evaluate"
    /\ ~fs.scores.exists
    /\ MonitorStale
    /\ GateBlocked
    /\ decision.reason = "no_scores"
    /\ ~decision.allow

\* C12: whenever the execution gate is reported blocked, the decision of an
\* evaluation (without force) is allow == false, whatever the coverage, the
\* MAE and the staleness of the artifacts are.
C12_BlockedNeverAllows ==
    (op = "evaluate" /\ decision.blocked) => ~decision.allow

\* the gate is blocked, nothing is stale, the coverage is low and the MAE is
\* high: either would allow retraining, and the decision is deny
C12_Witness ==
    /\ op = "evaluate"
    /\ decision.blocked
    /\ ~AnyArtifactStale
    /\ CoverageLow
    /\ MaeHigh
    /\ decision.reason = "trade_gate_blocked"
    /\ ~decision.allow

\* the monitor log is there, and its last line is unparsable or carries no
\* trade-gate entry, neither at the top level nor under "rest"
GateStateUnreadable ==
    /\ fs.monitor.exists
    /\ \/ ~fs.monitor.last.ok
       \/ fs.monitor.last.trade_gate = None /\ fs.monitor.last.rest_trade_gate = None

\* C13: when the state of the execution gate cannot be obtained from the
\* monitor log (last line unparsable, or no trade-gate entry), the decision
\* is made as if the gate were blocked, and is never allow.
C13_UnreadableGateFailsClosed ==
    (op = "evaluate" /\ GateStateUnreadable) =>
        (decision.blocked /\ ~decision.allow)

\* C20: decision.stale is true if and only if at least one of the four
\* artifacts (monitor log, latest-prediction file, scoring log, newest candle
\* file) is absent, has no usable timestamp, or is older than its limit.
C20_StaleIffAnyArtifactStale ==
    op = "evaluate" => (decision.stale <=> AnyArtifactStale)

\* the prediction file is missing and the three other artifacts are fresh:
\* the evaluation returns a decision, and the decision is stale
C20_Witness ==
    /\ op = "evaluate"
    /\ ~fs.predictions.exists
    /\ ~MonitorStale /\ ~ScoresStale /\ ~CandlesStale
    /\ decision.stale

(***************************************************************************)
(* StreamMetrics (src/src/oanda_autotrader/stream_metrics.py).             *)
(* Timestamps are integer seconds; raw and clamped latencies are integer   *)
(* milliseconds; the clock offset (a median) and the effective latency are *)
(* exact rationals in lowest terms.                                        *)
(***************************************************************************)
RECURSIVE GCD(_, _)
GCD(a, b) == IF b = 0 THEN a ELSE GCD(b, a % b)

\* a rational with a positive denominator, in lowest terms
RatNorm(r) ==
    LET g == GCD(Abs(r[1]), r[2])
    IN  <<r[1] \div g, r[2] \div g>>

RatEq(a, b) == a[1] * b[2] = b[1] * a[2]

\* min(max(r, lo), hi) for integers lo <= hi
RatClamp(r, lo, hi) ==
    IF r[1] < lo * r[2] THEN <<lo, 1>>
    ELSE IF r[1] > hi * r[2] THEN <<hi, 1>>
    ELSE r

\* StreamMetrics.__init__
StreamMetrics(window_seconds) ==
    [ window_seconds       |-> window_seconds,
      message_ts           |-> <<>>,
      latency_samples      |-> <<>>,
      neg_skew_samples     |-> <<>>,
      messages_total       |-> 0,
      reconnect_waits      |-> 0,
      errors               |-> 0,
      last_error           |-> None,
      last_message_ts      |-> None,
      last_success_ts      |-> None,
      last_error_ts        |-> None,
      last_reconnect_ts    |-> None,
      last_latency_ms      |-> None,
      last_latency_raw_ms  |-> None,
      last_skew_ms         |-> None,
      last_backlog         |-> None,
      last_reconnect_reason |-> None,
      last_effective_ms    |-> None,
      clock_offset_ms      |-> <<0, 1>>,
      last_outlier         |-> None ]

\* StreamLatencySample
StreamLatencySample(raw_ms, milliseconds, effective_ms, clock_offset_ms, backlog, skew_ms, outlier, timestamp) ==
    [ raw_ms |-> raw_ms, milliseconds |-> milliseconds, effective_ms |-> effective_ms,
      clock_offset_ms |-> clock_offset_ms, backlog |-> backlog, skew_ms |-> skew_ms,
      outlier |-> outlier, timestamp |-> timestamp ]

\* line 106-107: popleft() while the oldest arrival is before window_start
RECURSIVE TrimMessages(_, _)
TrimMessages(message_ts, window_start) ==
    IF message_ts # <<>> /\ Head(message_ts) < window_start
    THEN TrimMessages(Tail(message_ts), window_start)
    ELSE message_ts

\* line 108-109: popleft() while the oldest sample is before window_start
RECURSIVE TrimSamples(_, _)
TrimSamples(latency_samples, window_start) ==
    IF latency_samples # <<>> /\ Head(latency_samples).timestamp < window_start
    THEN TrimSamples(Tail(latency_samples), window_start)
    ELSE latency_samples

\* line 110: max(int(window_seconds * 10), 10)
skew_cap(window_seconds) == Max(window_seconds * 10, 10)

\* line 110-111: popleft() while the skew history is longer than its cap
RECURSIVE TrimSkew(_, _)
TrimSkew(neg_skew_samples, cap) ==
    IF Len(neg_skew_samples) > cap
    THEN TrimSkew(Tail(neg_skew_samples), cap)
    ELSE neg_skew_samples

\* StreamMetrics._trim
trim(m, now) ==
    LET window_start == now - m.window_seconds
    IN  [m EXCEPT
            !.message_ts       = TrimMessages(@, window_start),
            !.latency_samples  = TrimSamples(@, window_start),
            !.neg_skew_samples = TrimSkew(@, skew_cap(m.window_seconds))]

\* mutation for C31: an error is counted as a reconnect wait as well
on_event_ErrorCountsReconnect(m, event) ==
    IF event.event = "stream_message"
    THEN trim([m EXCEPT
                  !.messages_total  = @ + 1,
                  !.last_message_ts = Some(event.received_ts),
                  !.last_success_ts = Some(event.received_ts),
                  !.message_ts      = Append(@, event.received_ts)],
              event.received_ts)
    ELSE IF event.event = "stream_reconnect_wait"
    THEN [m EXCEPT
            !.reconnect_waits       = @ + 1,
            !.last_reconnect_ts     = Some(event.received_ts),
            !.last_reconnect_reason = Some("reconnect_wait")]
    ELSE IF event.event = "stream_error"
    THEN [m EXCEPT
            !.errors                = @ + 1,
            !.reconnect_waits       = @ + 1,
            !.last_error            = event.error,
            !.last_error_ts         = Some(event.received_ts),
            !.last_reconnect_reason = event.error]
    ELSE m

\* StreamMetrics.on_event; an event is [event, received_ts, error]
on_event(m, event) ==
    IF event.event = "stream_message"
    THEN trim([m EXCEPT
                  !.messages_total  = @ + 1,
                  !.last_message_ts = Some(event.received_ts),
                  !.last_success_ts = Some(event.received_ts),
                  !.message_ts      = Append(@, event.received_ts)],
              event.received_ts)
    ELSE IF event.event = "stream_reconnect_wait"
    THEN [m EXCEPT
            !.reconnect_waits       = @ + 1,
            !.last_reconnect_ts     = Some(event.received_ts),
            !.last_reconnect_reason = Some("reconnect_wait")]
    ELSE IF event.event = "stream_error"
    THEN [m EXCEPT
            !.errors                = @ + 1,
            !.last_error            = event.error,
            !.last_error_ts         = Some(event.received_ts),
            !.last_reconnect_reason = event.error]
    ELSE m

\* mutation for C29: the three limits are inclusive
normalize_latency_InclusiveLimits(raw_ms) ==
    LET skew_ms    == IF raw_ms < 0 THEN Some(Abs(raw_ms)) ELSE None
        latency_ms == IF raw_ms < 0 THEN 0 ELSE raw_ms
    IN  << latency_ms,
           skew_ms,
           latency_ms >= 2000,
           (raw_ms < 0 /\ raw_ms <= -250) \/ latency_ms >= 10000 >>

\* StreamMetrics._normalize_latency: <<latency_ms, skew_ms, backlog, outlier>>
normalize_latency(raw_ms) ==
    LET skew_ms    == IF raw_ms < 0 THEN Some(Abs(raw_ms)) ELSE None
        latency_ms == IF raw_ms < 0 THEN 0 ELSE raw_ms
    IN  << latency_ms,
           skew_ms,
           latency_ms > 2000,
           (raw_ms < 0 /\ raw_ms < -250) \/ latency_ms > 10000 >>

\* line 168-169: the skew history after the conditional append
SkewAppended(neg_skew_samples, raw_ms, outlier) ==
    IF raw_ms < 0 /\ ~outlier
    THEN Append(neg_skew_samples, Abs(raw_ms))
    ELSE neg_skew_samples

\* line 170-173: the offset returned by _update_clock_offset, from the skew
\* history as it is at that line
clock_offset(neg_skew_samples) ==
    IF neg_skew_samples = <<>> THEN <<0, 1>>
    ELSE RatClamp(RatNorm(median(neg_skew_samples)), 0, 1000)

\* mutation for C19: the floor at 0 is missing
effective_NoFloor(raw_ms, clock_offset_ms) ==
    RatNorm(RatAdd(<<raw_ms, 1>>, clock_offset_ms))

\* line 127
effective(raw_ms, clock_offset_ms) ==
    LET sum == RatNorm(RatAdd(<<raw_ms, 1>>, clock_offset_ms))
    IN  IF sum[1] < 0 THEN <<0, 1>> ELSE sum

\* lines 124-127: the sample record_latency is about to store, computed from
\* the skew history after _update_clock_offset has appended to it
NewSample(neg_skew_samples, raw_ms, received_ts) ==
    LET n == normalize_latency(raw_ms)
        clock_offset_ms == clock_offset(neg_skew_samples)
    IN  StreamLatencySample(raw_ms, n[1], effective(raw_ms, clock_offset_ms),
                            clock_offset_ms, n[3], n[2], n[4], received_ts)

\* lines 128-134: the last_* fields and clock_offset_ms
SetLast(m, sample) ==
    [m EXCEPT
        !.last_latency_raw_ms = Some(sample.raw_ms),
        !.last_latency_ms     = Some(sample.milliseconds),
        !.last_skew_ms        = sample.skew_ms,
        !.last_backlog        = Some(sample.backlog),
        !.last_effective_ms   = Some(sample.effective_ms),
        !.clock_offset_ms     = sample.clock_offset_ms,
        !.last_outlier        = Some(sample.outlier)]

\* lines 135-146
AppendSample(m, sample) ==
    [m EXCEPT !.latency_samples = Append(@, sample)]

\* _parse_timestamp, and the test of line 119: a server time is absent
\* (None or ""), or a string that parses or not; one that parses is
\* lag_ms milliseconds before the receipt
parse_timestamp(server_time) ==
    IF server_time.parsable THEN Some(server_time.lag_ms) ELSE None

\* mutation for C30: a server time that does not parse still trims the window
record_latency_UnparsableTrims(m, server_time, received_ts) ==
    IF ~server_time.given THEN m
    ELSE IF parse_timestamp(server_time) = None THEN trim(m, received_ts)
    ELSE LET raw_ms == Val(parse_timestamp(server_time))
             outlier == normalize_latency(raw_ms)[4]
             m1 == [m EXCEPT !.neg_skew_samples = SkewAppended(@, raw_ms, outlier)]
             sample == NewSample(m1.neg_skew_samples, raw_ms, received_ts)
         IN  trim(AppendSample(SetLast(m1, sample), sample), received_ts)

\* StreamMetrics.record_latency
record_latency(m, server_time, received_ts) ==
    IF ~server_time.given THEN m
    ELSE IF parse_timestamp(server_time) = None THEN m
    ELSE LET raw_ms == Val(parse_timestamp(server_time))
             outlier == normalize_latency(raw_ms)[4]
             m1 == [m EXCEPT !.neg_skew_samples = SkewAppended(@, raw_ms, outlier)]
             sample == NewSample(m1.neg_skew_samples, raw_ms, received_ts)
         IN  trim(AppendSample(SetLast(m1, sample), sample), received_ts)

\* the values of the non-outlier samples, in the order of the window
RECURSIVE ClampedValues(_)
ClampedValues(latency_samples) ==
    IF latency_samples = <<>> THEN <<>>
    ELSE (IF ~Head(latency_samples).outlier THEN <<Head(latency_samples).milliseconds>> ELSE <<>>)
         \o ClampedValues(Tail(latency_samples))

RECURSIVE EffectiveValues(_)
EffectiveValues(latency_samples) ==
    IF latency_samples = <<>> THEN <<>>
    ELSE (IF ~Head(latency_samples).outlier THEN <<Head(latency_samples).effective_ms>> ELSE <<>>)
         \o EffectiveValues(Tail(latency_samples))

sorted_rationals(s) == SortSeq(s, RatLess)

\* StreamMetrics.latency_stats: <<last, p95, mean>>
latency_stats(m) ==
    LET values == sorted(ClampedValues(m.latency_samples))
    IN  IF values = <<>> THEN <<None, None, None>>
        ELSE << m.last_latency_ms,
                Some(values[p95_index(Len(values))]),
                Some(RatNorm(<<SumSeq(values), Len(values)>>)) >>

\* StreamMetrics.effective_latency_stats: <<last, p95, mean>>
effective_latency_stats(m) ==
    LET values == sorted_rationals(EffectiveValues(m.latency_samples))
    IN  IF values = <<>> THEN <<None, None, None>>
        ELSE << m.last_effective_ms,
                Some(values[p95_index(Len(values))]),
                Some(RatNorm(RatMean(values))) >>

\* StreamMetrics.messages_per_second: <<the tracker after _trim, the rate>>
messages_per_second(m, now) ==
    LET trimmed == trim(m, now)
    IN  << trimmed, RatNorm(<<Len(trimmed.message_ts), Max(m.window_seconds, 1)>>) >>

\* the StreamMetricsSnapshot built by lines 210-229 from the two triples
\* and from the tracker after messages_per_second()
StreamMetricsSnapshot(m, messages_per_sec, eff, clamped) ==
    [ messages_total            |-> m.messages_total,
      messages_per_sec          |-> messages_per_sec,
      reconnect_waits           |-> m.reconnect_waits,
      errors                    |-> m.errors,
      last_error                |-> m.last_error,
      last_message_ts           |-> m.last_message_ts,
      last_success_ts           |-> m.last_success_ts,
      last_error_ts             |-> m.last_error_ts,
      last_reconnect_ts         |-> m.last_reconnect_ts,
      latency_last_ms           |-> eff[1],
      latency_p95_ms            |-> eff[2],
      latency_mean_ms           |-> eff[3],
      latency_clamped_last_ms   |-> clamped[1],
      latency_clamped_p95_ms    |-> clamped[2],
      latency_clamped_mean_ms   |-> clamped[3],
      latency_effective_last_ms |-> eff[1],
      latency_effective_p95_ms  |-> eff[2],
      latency_effective_mean_ms |-> eff[3] ]

\* StreamMetrics.snapshot: <<the tracker after the call, the snapshot>>;
\* the two triples are computed first, messages_per_second() trims after
snapshot(m, now) ==
    LET eff == effective_latency_stats(m)
        clamped == latency_stats(m)
        mps == messages_per_second(m, now)
    IN  << mps[1], StreamMetricsSnapshot(mps[1], mps[2], eff, clamped) >>

(***************************************************************************)
(* The tracker as a state machine: the stream loop hands it events and     *)
(* samples stamped with the clock, readers query it, and time passes.      *)
(***************************************************************************)
MaxCalls == 3
MaxClock == 3
MaxSkewCalls == 11

ServerTime(given, parsable, lag_ms) ==
    [ given |-> given, parsable |-> parsable, lag_ms |-> lag_ms ]

\* an absent server time, an unparsable one, and server times that make the
\* sample a skew outlier, a skewed sample, an ordinary one and a backlog one
ServerTimes ==
    { ServerTime(FALSE, FALSE, 0), ServerTime(TRUE, FALSE, 0) }
    \cup { ServerTime(TRUE, TRUE, lag_ms) : lag_ms \in {-300, -100, -40, 50, 3000} }

\* server times ahead of the local clock by no more than 250 ms
SkewedServerTimes == { ServerTime(TRUE, TRUE, lag_ms) : lag_ms \in {-30, -10} }

Event(event, received_ts, error) ==
    [ event |-> event, received_ts |-> received_ts, error |-> error ]

NoResult == [ call |-> "none", at |-> 0, value |-> None ]

TrackerInit(windows) ==
    /\ config = clamp(BaseConfig)
    /\ state = TradeLatencyGateState
    /\ effective_samples = <<>>
    /\ hist = HistInit
    /\ op = "new"
    /\ fs = None
    /\ params = None
    /\ decision = None
    /\ stream_metrics \in { StreamMetrics(w) : w \in windows }
    /\ clock = 0
    /\ result = NoResult
    /\ calls = 0
    /\ NoThreads

\* on_event(event) from the stream loop
OnEvent(kinds) ==
    /\ calls < MaxCalls
    /\ \E kind \in kinds :
          stream_metrics' = on_event(stream_metrics, Event(kind, clock, Some("timeout")))
    /\ calls' = calls + 1
    /\ result' = NoResult
    /\ op' = "on_event"
    /\ UNCHANGED <<gateVars, retrainVars, clock, threadVars>>

\* record_latency(server_time, received_ts) from the stream loop
RecordLatency(server_times, max_calls) ==
    /\ calls < max_calls
    /\ \E server_time \in server_times :
          stream_metrics' = record_latency(stream_metrics, server_time, clock)
    /\ calls' = calls + 1
    /\ result' = NoResult
    /\ op' = "record_latency"
    /\ UNCHANGED <<gateVars, retrainVars, clock, threadVars>>

LatencyStats ==
    /\ result' = [ call |-> "latency_stats", at |-> clock,
                   value |-> latency_stats(stream_metrics) ]
    /\ op' = "latency_stats"
    /\ UNCHANGED <<gateVars, retrainVars, stream_metrics, clock, calls, threadVars>>

EffectiveLatencyStats ==
    /\ result' = [ call |-> "effective_latency_stats", at |-> clock,
                   value |-> effective_latency_stats(stream_metrics) ]
    /\ op' = "effective_latency_stats"
    /\ UNCHANGED <<gateVars, retrainVars, stream_metrics, clock, calls, threadVars>>

MessagesPerSecond ==
    /\ stream_metrics' = messages_per_second(stream_metrics, clock)[1]
    /\ result' = [ call |-> "messages_per_second", at |-> clock,
                   value |-> messages_per_second(stream_metrics, clock)[2] ]
    /\ op' = "messages_per_second"
    /\ UNCHANGED <<gateVars, retrainVars, clock, calls, threadVars>>

Snapshot ==
    /\ stream_metrics' = snapshot(stream_metrics, clock)[1]
    /\ result' = [ call |-> "snapshot", at |-> clock,
                   value |-> snapshot(stream_metrics, clock)[2] ]
    /\ op' = "snapshot"
    /\ UNCHANGED <<gateVars, retrainVars, clock, calls, threadVars>>

\* a second passes
Tick ==
    /\ clock < MaxClock
    /\ clock' = clock + 1
    /\ op' = "tick"
    /\ UNCHANGED <<gateVars, retrainVars, stream_metrics, result, calls, threadVars>>

TrackerNext ==
    \/ OnEvent({"stream_message", "stream_error", "stream_reconnect_wait"})
    \/ RecordLatency(ServerTimes, MaxCalls)
    \/ LatencyStats
    \/ EffectiveLatencyStats
    \/ MessagesPerSecond
    \/ Snapshot
    \/ Tick

TrackerSpec == TrackerInit({1}) /\ [][TrackerNext]_vars

\* a run of clock-skewed samples, long enough to fill the skew history
SkewNext == RecordLatency(SkewedServerTimes, MaxSkewCalls)

SkewSpec == TrackerInit({1}) /\ [][SkewNext]_vars

(***************************************************************************)
(* Properties of the tracker.                                              *)
(***************************************************************************)
\* the tracker with only the entries whose timestamp lies within
\* window_seconds of the time now
InWindow(m, now) ==
    [m EXCEPT
        !.message_ts      = SelectSeq(@, LAMBDA t : t >= now - m.window_seconds),
        !.latency_samples = SelectSeq(@, LAMBDA x : x.timestamp >= now - m.window_seconds)]

\* C16: trim before compute: every throughput, percentile and mean value
\* returned by messages_per_second(), latency_stats(),
\* effective_latency_stats() or snapshot() is the one computed from the
\* entries whose timestamp lies within window_seconds of the query time.
C16_TrimBeforeCompute ==
    [][ LET fresh == InWindow(stream_metrics, clock)
            clamped == latency_stats(fresh)
            eff == effective_latency_stats(fresh)
            rate == messages_per_second(fresh, clock)[2]
        IN  /\ op' = "latency_stats" =>
                  result'.value[2] = clamped[2] /\ result'.value[3] = clamped[3]
            /\ op' = "effective_latency_stats" =>
                  result'.value[2] = eff[2] /\ result'.value[3] = eff[3]
            /\ op' = "messages_per_second" => result'.value = rate
            /\ op' = "snapshot" =>
                  /\ result'.value.messages_per_sec = rate
                  /\ result'.value.latency_clamped_p95_ms = clamped[2]
                  /\ result'.value.latency_clamped_mean_ms = clamped[3]
                  /\ result'.value.latency_effective_p95_ms = eff[2]
                  /\ result'.value.latency_effective_mean_ms = eff[3] ]_vars

\* the non-outlier samples the tracker still holds
Retained(m) == SelectSeq(m.latency_samples, LAMBDA x : ~x.outlier)

\* the triple of C17 from the values, in arrival order, of the retained
\* non-outlier samples: integers for latency_stats()
ClaimedClamped(values) ==
    IF values = <<>> THEN <<None, None, None>>
    ELSE << Some(values[Len(values)]),
            Some(sorted(values)[p95_index(Len(values))]),
            Some(RatNorm(<<SumSeq(values), Len(values)>>)) >>

\* and rationals for effective_latency_stats()
ClaimedEffective(values) ==
    IF values = <<>> THEN <<None, None, None>>
    ELSE << Some(values[Len(values)]),
            Some(sorted_rationals(values)[p95_index(Len(values))]),
            Some(RatNorm(RatMean(values))) >>

\* C17: latency_stats() and effective_latency_stats() take all three
\* components from the non-outlier samples still in the window: last is the
\* value of the most recent of them, p95 the nearest-rank element at index
\* round(0.95*(n-1)) of their values sorted ascending, mean their average,
\* and the result is (None, None, None) when there is none.
C17_StatsFromRetainedSamples ==
    LET retained == Retained(stream_metrics)
    IN  /\ op = "latency_stats" =>
              result.value =
                  ClaimedClamped([i \in 1..Len(retained) |-> retained[i].milliseconds])
        /\ op = "effective_latency_stats" =>
              result.value =
                  ClaimedEffective([i \in 1..Len(retained) |-> retained[i].effective_ms])

\* C18: for samples whose raw latencies all lie in [-250, 0) ms, after each
\* record_latency() clock_offset_ms equals the median of the magnitudes the
\* skew history holds after the call (at most max(10*window_seconds, 10) of
\* them), and a sample whose magnitude equals that median gets
\* effective_ms == 0.
C18_OffsetIsMedianOfHistory ==
    op = "record_latency" =>
        LET m == stream_metrics
            med == RatNorm(median(m.neg_skew_samples))
        IN  /\ Len(m.neg_skew_samples) <= skew_cap(m.window_seconds)
            /\ m.clock_offset_ms = med
            /\ (<<Val(m.last_skew_ms), 1>> = med => m.last_effective_ms = Some(<<0, 1>>))

\* C19: every recorded sample has effective_ms == max(0, raw_ms +
\* clock_offset_ms), hence effective_ms >= 0, and clock_offset_ms lies in
\* [0, 1000] ms in every reachable tracker state.
C19_EffectiveFloorAndOffsetRange ==
    LET m == stream_metrics
        floored(x) == IF x[1] < 0 THEN <<0, 1>> ELSE x
    IN  /\ \A i \in 1..Len(m.latency_samples) :
              LET x == m.latency_samples[i]
              IN  /\ RatEq(x.effective_ms,
                           floored(RatAdd(<<x.raw_ms, 1>>, x.clock_offset_ms)))
                  /\ x.effective_ms[1] >= 0
                  /\ x.clock_offset_ms[1] >= 0
                  /\ x.clock_offset_ms[1] <= 1000 * x.clock_offset_ms[2]
        /\ m.last_effective_ms # None => Val(m.last_effective_ms)[1] >= 0
        /\ m.clock_offset_ms[1] >= 0
        /\ m.clock_offset_ms[1] <= 1000 * m.clock_offset_ms[2]

\* a sample ahead of the estimated offset was floored at 0, and one behind it
\* got a positive effective latency from a positive offset
C19_Witness ==
    /\ op = "record_latency"
    /\ \E i \in 1..Len(stream_metrics.latency_samples) :
          LET x == stream_metrics.latency_samples[i]
          IN  x.raw_ms * x.clock_offset_ms[2] + x.clock_offset_ms[1] < 0
              /\ x.effective_ms = <<0, 1>>
    /\ \E i \in 1..Len(stream_metrics.latency_samples) :
          LET x == stream_metrics.latency_samples[i]
          IN  x.raw_ms < 0 /\ x.clock_offset_ms[1] > 0 /\ x.effective_ms[1] > 0

(***************************************************************************)
(* The dashboard's threads (src/scripts/dashboard_pygame.py).  The stream  *)
(* loop runs in a background thread and calls the tracker and the gate     *)
(* without taking a lock; the UI loop runs in the main thread and calls    *)
(* their snapshot().  Neither class has a lock of its own, so a thread     *)
(* switch can fall between any two statements: each thread's call is a     *)
(* sequence of steps, and the steps of the two threads interleave.         *)
(***************************************************************************)
MaxRaceSamples == 3

\* the server times of a skewed sample and of an ordinary one
RaceServerTimes == { ServerTime(TRUE, TRUE, lag_ms) : lag_ms \in {-100, 50} }

StreamIdle == [ pc |-> "idle", sample |-> None, call |-> None ]
UiIdle == [ pc |-> "idle", eff |-> None, clamped |-> None, seen |-> None ]

TrackerRaceInit ==
    /\ config = clamp(BaseConfig)
    /\ state = TradeLatencyGateState
    /\ effective_samples = <<>>
    /\ hist = HistInit
    /\ op = "new"
    /\ fs = None
    /\ params = None
    /\ decision = None
    /\ stream_metrics = StreamMetrics(1)
    /\ clock = 0
    /\ result = NoResult
    /\ calls = 0
    /\ stream = StreamIdle
    /\ ui = UiIdle

\* stream loop, record_latency lines 119-127: the sample is computed, and
\* _update_clock_offset has appended to the skew history
RecordLatencyCompute ==
    /\ stream.pc = "idle"
    /\ calls < MaxRaceSamples
    /\ \E server_time \in RaceServerTimes :
          LET raw_ms == Val(parse_timestamp(server_time))
              history == SkewAppended(stream_metrics.neg_skew_samples, raw_ms,
                                      normalize_latency(raw_ms)[4])
          IN  /\ stream_metrics' = [stream_metrics EXCEPT !.neg_skew_samples = history]
              /\ stream' = [stream EXCEPT !.pc = "computed",
                                          !.sample = Some(NewSample(history, raw_ms, clock))]
    /\ calls' = calls + 1
    /\ op' = "record_latency"
    /\ UNCHANGED <<gateVars, retrainVars, clock, result, ui>>

\* record_latency lines 128-134
RecordLatencySetLast ==
    /\ stream.pc = "computed"
    /\ stream_metrics' = SetLast(stream_metrics, Val(stream.sample))
    /\ stream' = [stream EXCEPT !.pc = "last_set"]
    /\ UNCHANGED <<gateVars, retrainVars, op, clock, result, calls, ui>>

\* record_latency lines 135-146
RecordLatencyAppend ==
    /\ stream.pc = "last_set"
    /\ stream_metrics' = AppendSample(stream_metrics, Val(stream.sample))
    /\ stream' = [stream EXCEPT !.pc = "appended"]
    /\ UNCHANGED <<gateVars, retrainVars, op, clock, result, calls, ui>>

\* record_latency line 147
RecordLatencyTrim ==
    /\ stream.pc = "appended"
    /\ stream_metrics' = trim(stream_metrics, Val(stream.sample).timestamp)
    /\ stream' = StreamIdle
    /\ UNCHANGED <<gateVars, retrainVars, op, clock, result, calls, ui>>

\* stream loop, on_event lines 86-90 for a stream_message
OnMessageCount ==
    /\ stream.pc = "idle"
    /\ calls < MaxRaceSamples
    /\ stream_metrics' = [stream_metrics EXCEPT
                             !.messages_total  = @ + 1,
                             !.last_message_ts = Some(clock),
                             !.last_success_ts = Some(clock),
                             !.message_ts      = Append(@, clock)]
    /\ stream' = [stream EXCEPT !.pc = "counted", !.call = Some(clock)]
    /\ calls' = calls + 1
    /\ op' = "on_event"
    /\ UNCHANGED <<gateVars, retrainVars, clock, result, ui>>

\* on_event line 91
OnMessageTrim ==
    /\ stream.pc = "counted"
    /\ stream_metrics' = trim(stream_metrics, Val(stream.call))
    /\ stream' = StreamIdle
    /\ UNCHANGED <<gateVars, retrainVars, op, clock, result, calls, ui>>

\* UI loop, snapshot() line 208
SnapshotEffective ==
    /\ ui.pc = "idle"
    /\ ui' = [ui EXCEPT !.pc = "effective_read",
                        !.eff = Some(effective_latency_stats(stream_metrics))]
    /\ UNCHANGED <<gateVars, retrainVars, op, trackerVars, stream>>

\* snapshot() line 209
SnapshotClamped ==
    /\ ui.pc = "effective_read"
    /\ ui' = [ui EXCEPT !.pc = "clamped_read",
                        !.clamped = Some(latency_stats(stream_metrics))]
    /\ UNCHANGED <<gateVars, retrainVars, op, trackerVars, stream>>

\* snapshot() lines 210-229: messages_per_second() trims, the counters are read
SnapshotBuild ==
    /\ ui.pc = "clamped_read"
    /\ LET mps == messages_per_second(stream_metrics, clock)
       IN  /\ stream_metrics' = mps[1]
           /\ ui' = [ pc |-> "idle", eff |-> None, clamped |-> None,
                      seen |-> Some(StreamMetricsSnapshot(mps[1], mps[2],
                                                          Val(ui.eff), Val(ui.clamped))) ]
    /\ UNCHANGED <<gateVars, retrainVars, op, clock, result, calls, stream>>

RaceTick ==
    /\ clock < MaxClock
    /\ clock' = clock + 1
    /\ UNCHANGED <<gateVars, retrainVars, op, stream_metrics, result, calls, threadVars>>

TrackerRaceNext ==
    \/ RecordLatencyCompute
    \/ RecordLatencySetLast
    \/ RecordLatencyAppend
    \/ RecordLatencyTrim
    \/ OnMessageCount
    \/ OnMessageTrim
    \/ SnapshotEffective
    \/ SnapshotClamped
    \/ SnapshotBuild
    \/ RaceTick

TrackerRaceSpec == TrackerRaceInit /\ [][TrackerRaceNext]_vars

\* mutation for C23: the raw latency decides whenever it is present
should_warn_RawFirst(cfg, st) ==
    IF st.last_raw_ms # None
    THEN Val(st.last_raw_ms) >= cfg.backlog_warn_ms
    ELSE st.last_effective_ms # None /\ Val(st.last_effective_ms) >= cfg.backlog_warn_ms

\* TradeLatencyGate.should_warn
should_warn(cfg, st) ==
    IF st.last_effective_ms # None
    THEN Val(st.last_effective_ms) >= cfg.backlog_warn_ms
    ELSE st.last_raw_ms # None /\ Val(st.last_raw_ms) >= cfg.backlog_warn_ms

\* TradeLatencyGate.snapshot: the dict of the config fields, the state
\* fields and the warn flags (a later key of the dict display wins)
gate_snapshot(cfg, st) ==
    LET warn_last == should_warn(cfg, st)
        warn_p95 == st.warn_p95_latched
    IN  [ warn              |-> warn_last \/ warn_p95,
          warn_last         |-> warn_last,
          warn_p95          |-> warn_p95,
          effective_p95_ms  |-> st.last_effective_p95_ms,
          effective_mean_ms |-> st.last_effective_mean_ms,
          warn_p95_on_ms    |-> st.warn_p95_on_ms,
          warn_p95_off_ms   |-> st.warn_p95_off_ms,
          p95_warn_streak   |-> st.p95_warn_streak,
          p95_clear_streak  |-> st.p95_clear_streak ] @@ st @@ cfg

GateRaceInit ==
    /\ config \in {clamp(c) : c \in StreakConfigs}
    /\ state = TradeLatencyGateState
    /\ effective_samples = <<>>
    /\ hist = HistInit
    /\ op = "new"
    /\ fs = None
    /\ params = None
    /\ decision = None
    /\ NoTracker
    /\ stream = StreamIdle
    /\ ui = UiIdle

\* stream loop, update() lines 87-106: the counters and the last_* fields
UpdateRecord ==
    /\ stream.pc = "idle"
    /\ state.total_samples < MaxRaceSamples
    /\ \E c \in {d \in Calls : d.raw_ms # None \/ d.effective_ms # None} :
          /\ state' = RecordSample(state, c.raw_ms, c.effective_ms, c.backlog,
                                   c.outlier, c.skew_ms)
          /\ stream' = [stream EXCEPT !.pc = "recorded", !.call = Some(c)]
    /\ op' = "update"
    /\ UNCHANGED <<config, effective_samples, hist, retrainVars, trackerVars, ui>>

\* update() lines 108-136
UpdatePercentile ==
    /\ stream.pc = "recorded"
    /\ LET c == Val(stream.call)
           window == UpdatedWindow(effective_samples, c.effective_ms, c.outlier, config)
       IN  /\ effective_samples' = window
           /\ state' = IF c.effective_ms # None /\ ~c.outlier
                       THEN PercentileSignal(state, window, config)
                       ELSE state
    /\ stream' = [stream EXCEPT !.pc = "percentile"]
    /\ UNCHANGED <<config, hist, op, retrainVars, trackerVars, ui>>

\* update() lines 138-146
UpdateStreaks ==
    /\ stream.pc = "percentile"
    /\ LET c == Val(stream.call)
       IN  state' = HitStreaks(state, sample_ms(c.raw_ms, c.effective_ms),
                               c.backlog, c.outlier, config)
    /\ stream' = [stream EXCEPT !.pc = "streaks"]
    /\ UNCHANGED <<config, effective_samples, hist, op, retrainVars, trackerVars, ui>>

\* update() lines 148-160
UpdateBlocking ==
    /\ stream.pc = "streaks"
    /\ LET c == Val(stream.call)
       IN  state' = Blocking(state, c.backlog, c.outlier, config)
    /\ stream' = StreamIdle
    /\ UNCHANGED <<config, effective_samples, hist, op, retrainVars, trackerVars, ui>>

\* UI loop, dashboard_pygame.py line 869: gate = state.trade_gate.snapshot()
GateSnapshot ==
    /\ ui' = [ui EXCEPT !.seen = Some(gate_snapshot(config, state))]
    /\ UNCHANGED <<gateVars, op, retrainVars, trackerVars, stream>>

GateRaceNext ==
    \/ UpdateRecord
    \/ UpdatePercentile
    \/ UpdateStreaks
    \/ UpdateBlocking
    \/ GateSnapshot

GateRaceSpec == GateRaceInit /\ [][GateRaceNext]_vars

\* C14: tracker operations are mutually exclusive: a snapshot() of a reader
\* never interleaves with an on_event() or record_latency() of the stream
\* loop, that is, no reader is inside snapshot() while an update of the
\* tracker is partially applied.
C14_TrackerOperationsExclusive ==
    ~(ui.pc # "idle" /\ stream.pc # "idle")

\* C15: every gate snapshot() a reader sees reflects a completed update: in
\* it, last_backlog or last_outlier true implies blocked true, and
\* total_samples < min_samples implies blocked true.
C15_GateSnapshotConsistent ==
    ui.seen # None =>
        LET seen == Val(ui.seen)
        IN  /\ (seen.last_backlog = Some(TRUE) \/ seen.last_outlier = Some(TRUE))
                   => seen.blocked
            /\ seen.total_samples < seen.min_samples => seen.blocked

(***************************************************************************)
(* The gate as its callers use it between complete updates: the stream     *)
(* loop calls update() and holds what it returned, a reader calls          *)
(* snapshot().                                                             *)
(***************************************************************************)
MaxApiSamples == 3

\* update() lines 88 and 160, `return self.state` / `return st` with
\* st = self.state (line 91): the caller gets the gate's own state object,
\* and value is what the object held when the call returned
update_return(st) == [ object |-> "self.state", value |-> st ]

\* what the holder of a returned state reads through it now
Deref(handle, live) == IF handle.object = "self.state" THEN live ELSE handle.value

ApiStreamIdle == [ pc |-> "idle", call |-> None, first_return |-> None ]
ApiReaderIdle == [ pc |-> "idle", seen |-> None, high_run |-> 0, low_run |-> 0 ]

GateApiInit ==
    /\ config \in {clamp(c) : c \in PercentileConfigs}
    /\ state = TradeLatencyGateState
    /\ effective_samples = <<>>
    /\ hist = HistInit
    /\ op = "new"
    /\ fs = None
    /\ params = None
    /\ decision = None
    /\ NoTracker
    /\ stream = ApiStreamIdle
    /\ ui = ApiReaderIdle

\* stream loop, dashboard_pygame.py lines 488-500: one complete update();
\* the loop keeps the state the first call returned
ApiUpdate ==
    /\ state.total_samples < MaxApiSamples
    /\ \E c \in Calls :
          IF c.raw_ms = None /\ c.effective_ms = None
          THEN /\ op' = "update_ignored"
               /\ stream' = [stream EXCEPT
                                !.first_return = IF @ = None THEN Some(update_return(state))
                                                 ELSE @]
               /\ UNCHANGED <<state, effective_samples, hist>>
          ELSE /\ state' = UpdatedState(state, effective_samples, c.raw_ms, c.effective_ms,
                                        c.backlog, c.outlier, c.skew_ms, config)
               /\ effective_samples' = UpdatedWindow(effective_samples, c.effective_ms,
                                                     c.outlier, config)
               /\ hist' = HistAfter(hist, state, state', c.raw_ms, c.effective_ms,
                                    c.backlog, c.outlier, config)
               /\ op' = "update"
               /\ stream' = [stream EXCEPT
                                !.call = Some(c),
                                !.first_return = IF @ = None THEN Some(update_return(state'))
                                                 ELSE @]
    /\ ui' = [ui EXCEPT !.seen = None]
    /\ UNCHANGED <<config, retrainVars, trackerVars>>

\* a reader's snapshot() (dashboard_pygame.py lines 529 and 869,
\* monitoring.py line 49).  high_run and low_run count, from the window the
\* gate holds at each call, the successive snapshot() calls at which the
\* window's p95 was at or above the on threshold (with total_samples >=
\* min_samples), respectively at or below the off threshold.
ApiSnapshot ==
    /\ LET p95  == effective_stats(effective_samples)[1]
           high == /\ p95 # None
                   /\ state.total_samples >= config.min_samples
                   /\ Val(p95) >= on_threshold(config)
           low  == /\ p95 # None
                   /\ state.total_samples >= config.min_samples
                   /\ Val(p95) <= off_threshold(config)
       IN  ui' = [ pc       |-> "idle",
                   seen     |-> Some(gate_snapshot(config, state)),
                   high_run |-> IF high
                                THEN Min(ui.high_run + 1, config.consecutive_p95_to_warn)
                                ELSE 0,
                   low_run  |-> IF low
                                THEN Min(ui.low_run + 1, config.consecutive_p95_to_clear)
                                ELSE 0 ]
    /\ op' = "snapshot"
    /\ UNCHANGED <<gateVars, retrainVars, trackerVars, stream>>

GateApiNext ==
    \/ ApiUpdate
    \/ ApiSnapshot

GateApiSpec == GateApiInit /\ [][GateApiNext]_vars

\* C21: snapshot() reports the percentile warning for the window the gate
\* holds: once the window's p95 was at or above the on threshold at
\* consecutive_p95_to_warn successive snapshot() calls (with total_samples >=
\* min_samples) the snapshot's warn_p95 is true, and once it was at or below
\* the off threshold at consecutive_p95_to_clear successive calls warn_p95
\* is false.
C21_SnapshotEvaluatesPercentileWarning ==
    op = "snapshot" =>
        /\ ui.high_run >= config.consecutive_p95_to_warn => Val(ui.seen).warn_p95
        /\ ui.low_run >= config.consecutive_p95_to_clear => ~Val(ui.seen).warn_p95

\* C22: the state returned by update() is an immutable snapshot: what the
\* caller reads through the state the first call returned stays what it was
\* when that call returned, whatever calls follow.
C22_ReturnedStateImmutable ==
    stream.first_return # None =>
        Deref(Val(stream.first_return), state) = Val(stream.first_return).value

\* the last processed sample's effective latency, its raw latency when it had none
LastSampleMs == IF stream.call = None THEN None
                ELSE IF Val(stream.call).effective_ms # None
                     THEN Val(stream.call).effective_ms
                     ELSE Val(stream.call).raw_ms

\* C23: in every gate snapshot(), warn == (warn_last or warn_p95); warn_last
\* is true iff the last processed sample's effective latency (its raw latency
\* when it had no effective one) is >= the warn threshold, whatever the raw
\* value when an effective one exists, and false before any sample; warn_p95
\* is the latch and blocked is the gate's blocked state.
C23_SnapshotWarnFlags ==
    op = "snapshot" =>
        LET seen == Val(ui.seen)
        IN  /\ seen.warn = (seen.warn_last \/ seen.warn_p95)
            /\ seen.warn_last = (LastSampleMs # None
                                 /\ Val(LastSampleMs) >= config.backlog_warn_ms)
            /\ seen.warn_p95 = state.warn_p95_latched
            /\ seen.blocked = state.blocked

\* a snapshot after a sample whose raw latency is above the warn threshold
\* and whose effective latency is below it, while the latch is set
C23_Witness ==
    /\ op = "snapshot"
    /\ stream.call # None
    /\ Val(stream.call).raw_ms # None
    /\ Val(stream.call).effective_ms # None
    /\ Val(Val(stream.call).raw_ms) >= config.backlog_warn_ms
    /\ Val(Val(stream.call).effective_ms) < config.backlog_warn_ms
    /\ ~Val(ui.seen).warn_last
    /\ Val(ui.seen).warn_p95
    /\ Val(ui.seen).warn

(***************************************************************************)
(* The training loop's gate step (scripts/train_autoencoder_loop.py, the   *)
(* body of `while True` down to the start of training).  matrix_ready      *)
(* stands for load_matrix() having returned enough rows (lines 160-163).   *)
(***************************************************************************)
LoopArguments ==
    { a @@ [ force_retrain |-> force, once |-> once, matrix_ready |-> ready ] :
        a \in {x \in Arguments : x.window_n = 4 /\ x.volatility_scale = 1},
        force \in BOOLEAN, once \in BOOLEAN, ready \in BOOLEAN }

\* mutation for C24: the gate is consulted whatever --force-retrain says
train_loop_iteration_GateAlways(f, args) ==
    IF ~args.matrix_ready
    THEN [ gate |-> None, printed |-> None, next |-> "sleep" ]
    ELSE LET gate == evaluate_retrain_gate(f, args)
         IN  [ gate    |-> Some(gate),
               printed |-> Some([ decision |-> IF gate.allow THEN "ALLOW" ELSE "SKIP",
                                  reason   |-> gate.reason ]),
               next    |-> IF gate.allow THEN "train"
                           ELSE IF args.once THEN "exit" ELSE "sleep" ]

\* lines 159-200: gate is the RetrainGateDecision when the gate was
\* evaluated, printed the decision and reason of the retrain_gate line, next
\* what the loop does after it
train_loop_iteration(f, args) ==
    IF ~args.matrix_ready
    THEN [ gate |-> None, printed |-> None, next |-> "sleep" ]
    ELSE IF ~args.force_retrain
    THEN LET gate == evaluate_retrain_gate(f, args)
         IN  [ gate    |-> Some(gate),
               printed |-> Some([ decision |-> IF gate.allow THEN "ALLOW" ELSE "SKIP",
                                  reason   |-> gate.reason ]),
               next    |-> IF gate.allow THEN "train"
                           ELSE IF args.once THEN "exit" ELSE "sleep" ]
    ELSE [ gate    |-> None,
           printed |-> Some([ decision |-> "ALLOW", reason |-> "forced" ]),
           next    |-> "train" ]

TrainLoopInit ==
    /\ config = clamp(BaseConfig)
    /\ state = TradeLatencyGateState
    /\ effective_samples = <<>>
    /\ hist = HistInit
    /\ op = "new"
    /\ fs \in FileSystems
    /\ params \in LoopArguments
    /\ decision = None
    /\ NoTracker
    /\ NoThreads

\* one pass of the loop, up to the decision
TrainLoopIteration ==
    /\ op = "new"
    /\ decision' = train_loop_iteration(fs, params)
    /\ op' = "train_loop"
    /\ UNCHANGED <<gateVars, fs, params, trackerVars, threadVars>>

TrainLoopNext == TrainLoopIteration

TrainLoopSpec == TrainLoopInit /\ [][TrainLoopNext]_vars

\* C24: when the force override is set the retraining decision is allow with
\* reason "forced" and training goes ahead, whatever the coverage, the
\* staleness, the MAE and the execution gate's state; no gate rule is
\* evaluated.
C24_ForcedAllows ==
    (op = "train_loop" /\ params.force_retrain) =>
        /\ decision.gate = None
        /\ params.matrix_ready =>
              /\ decision.printed = Some([ decision |-> "ALLOW", reason |-> "forced" ])
              /\ decision.next = "train"

\* a forced pass over files on which the gate itself denies
C24_Witness ==
    /\ op = "train_loop"
    /\ params.force_retrain
    /\ params.matrix_ready
    /\ decision.printed = Some([ decision |-> "ALLOW", reason |-> "forced" ])
    /\ ~evaluate_retrain_gate(fs, params).allow
    /\ evaluate_retrain_gate(fs, params).blocked
    /\ evaluate_retrain_gate(fs, params).stale

(***************************************************************************)
(* load_thresholds (trade_latency_gate.py).  A threshold file is named by  *)
(* its directory: in every directory the file is the one thresholds_path   *)
(* names for the mode and instrument of the call.  A file is absent, holds *)
(* text that is not JSON, or holds a JSON object.                          *)
(***************************************************************************)
\* TradeLatencyGateConfig(mode=..., instrument=...): the dataclass defaults
TradeLatencyGateConfig(mode, instrument) ==
    [ mode                         |-> mode,
      instrument                   |-> instrument,
      skew_outlier_ms              |-> 1000,
      backlog_warn_ms              |-> 1500,
      backlog_block_ms             |-> 500,
      consecutive_backlog_to_block |-> 3,
      consecutive_good_to_unblock  |-> 10,
      outlier_high_ms              |-> 10000,
      min_samples                  |-> 60,
      block_ms_min                 |-> 250,
      block_ms_max                 |-> 750,
      warn_ms_min                  |-> 800,
      warn_ms_max                  |-> 2500,
      effective_window_size        |-> 120,
      warn_p95_hyst_on_ms          |-> 25,
      warn_p95_hyst_off_ms         |-> 50,
      consecutive_p95_to_warn      |-> 2,
      consecutive_p95_to_clear     |-> 3 ]

\* thresholds_path: root = base_dir or "data"
thresholds_path(base_dir) ==
    IF base_dir # None /\ Val(base_dir) # "" THEN Val(base_dir) ELSE "data"

\* load_thresholds lines 238-243
search_paths(env_dir) ==
    (IF env_dir # None /\ Val(env_dir) # "" THEN <<thresholds_path(env_dir)>> ELSE <<>>)
    \o <<thresholds_path(Some("config/latency_thresholds")), thresholds_path(Some("data"))>>

\* lines 245-249: the first candidate that exists
RECURSIVE first_existing(_, _)
first_existing(paths, files) ==
    IF paths = <<>> THEN None
    ELSE IF files[Head(paths)].exists THEN Some(Head(paths))
    ELSE first_existing(Tail(paths), files)

\* lines 259-261: every key of the file that is a field of the config is set
apply_file(cfg, data) ==
    [ key \in DOMAIN cfg |-> IF key \in DOMAIN data THEN data[key] ELSE cfg[key] ]

\* float(override): the number a numeric text spells, ValueError (None) otherwise
float_of(text) == IF text.kind = "number" THEN Some(text.value) ELSE None

sha1(content) == <<"sha1", content>>

Returned(cfg, meta) == [ raised |-> None, value |-> Some([ cfg |-> cfg, meta |-> meta ]) ]
Raised(error) == [ raised |-> Some(error), value |-> None ]

\* mutation for C27: a file that is not JSON falls back to the defaults
load_thresholds_DefaultsOnBadJson(mode, instrument, base_dir, files, env) ==
    LET cfg  == TradeLatencyGateConfig(mode, instrument)
        path == first_existing(search_paths(env.OANDA_LATENCY_THRESHOLDS_DIR), files)
    IN  IF path = None \/ files[Val(path)].json = None
        THEN Returned(cfg, [ path |-> None, source |-> "defaults", sha1 |-> None,
                             backlog_warn_ms_override |-> None ])
        ELSE Returned(clamp([apply_file(cfg, Val(files[Val(path)].json)) EXCEPT
                                !.warn_ms_min = 0, !.block_ms_min = 0]),
                      [ path |-> path, source |-> "file",
                        sha1 |-> Some(sha1(files[Val(path)].json)),
                        backlog_warn_ms_override |-> None ])

\* load_thresholds(mode, instrument, base_dir=...), reading the files and
\* the environment; meta's backlog_warn_ms_override is None when the key is
\* not set
load_thresholds(mode, instrument, base_dir, files, env) ==
    LET cfg  == TradeLatencyGateConfig(mode, instrument)
        path == first_existing(search_paths(env.OANDA_LATENCY_THRESHOLDS_DIR), files)
        meta == [ path |-> path, source |-> "defaults", sha1 |-> None,
                  backlog_warn_ms_override |-> None ]
    IN  IF path = None
        THEN Returned(cfg, meta)
        ELSE LET content == files[Val(path)].json
             IN  IF content = None
                 THEN Raised("JSONDecodeError")
                 ELSE LET loaded   == [apply_file(cfg, Val(content)) EXCEPT
                                          !.warn_ms_min = 0, !.block_ms_min = 0]
                          override == env.TG_BACKLOG_WARN_MS_OVERRIDE
                          given    == override # None /\ Val(override).kind # "empty"
                          number   == IF given THEN float_of(Val(override)) ELSE None
                          final    == IF number # None
                                      THEN [loaded EXCEPT !.backlog_warn_ms = Val(number)]
                                      ELSE loaded
                     IN  Returned(clamp(final),
                                  [ path   |-> path,
                                    source |-> "file",
                                    sha1   |-> Some(sha1(content)),
                                    backlog_warn_ms_override |->
                                        IF ~given THEN None
                                        ELSE IF number # None THEN Some(<<"value", Val(number)>>)
                                        ELSE Some(<<"invalid">>) ])

\* the directories of the model: the caller's base_dir "D", the directory
\* "E" of OANDA_LATENCY_THRESHOLDS_DIR, and the two built-in ones
ThresholdDirs == {"D", "E", "config/latency_thresholds", "data"}

NoFile == [ exists |-> FALSE, json |-> None ]
NotJson == [ exists |-> TRUE, json |-> None ]
JsonFile(data) == [ exists |-> TRUE, json |-> Some(data) ]

ThresholdFileKinds ==
    { NoFile, NotJson,
      \* thresholds below the default minimum bands
      JsonFile([ backlog_warn_ms |-> 200, backlog_block_ms |-> 400 ]),
      \* thresholds above the maximum bands
      JsonFile([ backlog_warn_ms |-> 3000, backlog_block_ms |-> 900 ]),
      \* a file that sets the warn band, with a key the config does not have
      JsonFile([ backlog_warn_ms |-> 900, warn_ms_min |-> 850, warn_ms_max |-> 950,
                 bogus |-> 1 ]) }

OverrideTexts ==
    { [ kind |-> "empty", value |-> 0 ],
      [ kind |-> "word", value |-> 0 ],
      [ kind |-> "number", value |-> 1000 ],
      [ kind |-> "number", value |-> 3000 ] }

Environments ==
    [ OANDA_LATENCY_THRESHOLDS_DIR : {None, Some("E")},
      TG_BACKLOG_WARN_MS_OVERRIDE  : Optional(OverrideTexts) ]

LoadCalls ==
    [ mode : {"live"}, instrument : {"USD_CAD"}, base_dir : {None, Some("D")},
      env : Environments ]

ThresholdsInit ==
    /\ config = clamp(BaseConfig)
    /\ state = TradeLatencyGateState
    /\ effective_samples = <<>>
    /\ hist = HistInit
    /\ op = "new"
    /\ fs \in [ThresholdDirs -> ThresholdFileKinds]
    /\ params \in LoadCalls
    /\ decision = None
    /\ stream_metrics = None
    /\ clock = 0
    /\ result = None
    /\ calls = 0
    /\ NoThreads

\* one call of load_thresholds
LoadThresholds ==
    /\ op = "new"
    /\ result' = load_thresholds(params.mode, params.instrument, params.base_dir,
                                 fs, params.env)
    /\ op' = "load_thresholds"
    /\ UNCHANGED <<gateVars, retrainVars, stream_metrics, clock, calls, threadVars>>

ThresholdsNext == LoadThresholds

ThresholdsSpec == ThresholdsInit /\ [][ThresholdsNext]_vars

\* the override variable, when it is set to a non-empty text
OverrideGiven ==
    /\ params.env.TG_BACKLOG_WARN_MS_OVERRIDE # None
    /\ Val(params.env.TG_BACKLOG_WARN_MS_OVERRIDE).kind # "empty"

OverrideNumeric == OverrideGiven /\ Val(params.env.TG_BACKLOG_WARN_MS_OVERRIDE).kind = "number"

\* the file the search order selects: the environment's directory, then
\* config/latency_thresholds, then data
SelectedPath ==
    IF params.env.OANDA_LATENCY_THRESHOLDS_DIR # None
       /\ fs[Val(params.env.OANDA_LATENCY_THRESHOLDS_DIR)].exists
    THEN params.env.OANDA_LATENCY_THRESHOLDS_DIR
    ELSE IF fs["config/latency_thresholds"].exists THEN Some("config/latency_thresholds")
    ELSE IF fs["data"].exists THEN Some("data")
    ELSE None

NoThresholdFile == \A dir \in ThresholdDirs : ~fs[dir].exists

ReturnedDefaults ==
    /\ result.raised = None
    /\ Val(result.value).cfg = TradeLatencyGateConfig(params.mode, params.instrument)
    /\ Val(result.value).meta.source = "defaults"

\* C25: load_thresholds(mode, instrument, base_dir=D) loads the threshold
\* file of directory D when it exists: the source is "file" and the
\* backlog_warn_ms and backlog_block_ms of the file are returned unchanged,
\* also below the default minimum bands; when no threshold file exists the
\* defaults are returned with source "defaults".
C25_LoadsFromBaseDir ==
    (op = "load_thresholds" /\ params.base_dir # None /\ ~OverrideGiven) =>
        /\ \A data \in {[ backlog_warn_ms |-> 200, backlog_block_ms |-> 400 ]} :
              fs[Val(params.base_dir)] = JsonFile(data) =>
                  /\ result.raised = None
                  /\ Val(result.value).meta.source = "file"
                  /\ Val(result.value).cfg.backlog_warn_ms = data.backlog_warn_ms
                  /\ Val(result.value).cfg.backlog_block_ms = data.backlog_block_ms
        /\ NoThresholdFile => ReturnedDefaults

\* C26: whenever the numeric warn-threshold override is present the returned
\* config's warn threshold is the override value after the final clamping,
\* whatever a threshold file says and also when there is no threshold file;
\* a non-numeric override is ignored without raising.
C26_OverrideAlwaysApplies ==
    (op = "load_thresholds" /\ OverrideGiven
        /\ (SelectedPath = None \/ fs[Val(SelectedPath)].json # None)) =>
        /\ result.raised = None
        /\ OverrideNumeric =>
              LET cfg == Val(result.value).cfg
              IN  cfg.backlog_warn_ms =
                      ClampValue(Val(params.env.TG_BACKLOG_WARN_MS_OVERRIDE).value,
                                 cfg.warn_ms_min, cfg.warn_ms_max)
        /\ ~OverrideNumeric =>
              Val(result.value).cfg =
                  Val(load_thresholds(params.mode, params.instrument, params.base_dir, fs,
                                      [params.env EXCEPT !.TG_BACKLOG_WARN_MS_OVERRIDE = None]
                                     ).value).cfg

\* C27: when the selected threshold file exists but is not valid JSON,
\* load_thresholds raises and returns no config (it does not fall back to
\* the defaults); when no threshold file exists it returns the defaults
\* without error.
C27_BadFileFailsFast ==
    op = "load_thresholds" =>
        /\ (SelectedPath # None /\ fs[Val(SelectedPath)].json = None) =>
              /\ result.raised # None
              /\ result.value = None
        /\ NoThresholdFile => ReturnedDefaults

\* the selected file is not JSON while a later candidate is a valid file
C27_Witness ==
    /\ op = "load_thresholds"
    /\ fs["config/latency_thresholds"] = NotJson
    /\ SelectedPath = Some("config/latency_thresholds")
    /\ fs["data"].json # None
    /\ result.raised = Some("JSONDecodeError")
    /\ result.value = None

(***************************************************************************)
(* suggest_thresholds (trade_latency_gate.py), applied to populations of   *)
(* raw latencies; a value is an Optional integer.                          *)
(***************************************************************************)
MaxPopulation == 3

\* values = [max(v, 0.0) for v in raw_ms_values if v is not None]
RECURSIVE floored_values(_)
floored_values(raw_ms_values) ==
    IF raw_ms_values = <<>> THEN <<>>
    ELSE (IF Head(raw_ms_values) # None
          THEN <<Max(Val(Head(raw_ms_values)), 0)>>
          ELSE <<>>) \o floored_values(Tail(raw_ms_values))

\* max(0, int(round(0.99 * (n - 1)))) as a 1-based index into the sorted values
p99_index(n) == Max(0, RoundHalfEven(99 * (n - 1), 100)) + 1

\* mutation for C28: both thresholds come from the largest value
suggest_thresholds_MaxRank(raw_ms_values, warn_min, warn_max, block_min, block_max) ==
    LET values == sorted(floored_values(raw_ms_values))
    IN  IF values = <<>> THEN <<warn_min, block_min>>
        ELSE << Min(Max(values[Len(values)], warn_min), warn_max),
                Min(Max(values[Len(values)], block_min), block_max) >>

\* suggest_thresholds: <<warn, block>>
suggest_thresholds(raw_ms_values, warn_min, warn_max, block_min, block_max) ==
    LET values == sorted(floored_values(raw_ms_values))
    IN  IF values = <<>> THEN <<warn_min, block_min>>
        ELSE << Min(Max(values[p95_index(Len(values))], warn_min), warn_max),
                Min(Max(values[p99_index(Len(values))], block_min), block_max) >>

\* the populations: every one of at most MaxPopulation values, the one of
\* the repository's test, and one long enough for p95 and p99 to differ
PopulationValues == {None, Some(-5), Some(10), Some(900), Some(3000)}

TestPopulation == <<Some(10), Some(20), Some(30), Some(40), Some(50)>>

LongPopulation == [ i \in 1..12 |-> Some(100 * (13 - i)) ]

Populations ==
    UNION { [1..n -> PopulationValues] : n \in 0..MaxPopulation }
    \cup {TestPopulation, LongPopulation}

SuggestCalls ==
    { [ raw_ms_values |-> values,
        warn_min |-> warn[1], warn_max |-> warn[2],
        block_min |-> block[1], block_max |-> block[2] ] :
      values \in Populations,
      warn \in {<<800, 2500>>, <<-10, 20>>},
      block \in {<<250, 750>>, <<1000, 1300>>} }

SuggestInit ==
    /\ config = clamp(BaseConfig)
    /\ state = TradeLatencyGateState
    /\ effective_samples = <<>>
    /\ hist = HistInit
    /\ op = "new"
    /\ fs = None
    /\ params \in SuggestCalls
    /\ decision = None
    /\ stream_metrics = None
    /\ clock = 0
    /\ result = None
    /\ calls = 0
    /\ NoThreads

\* one call of suggest_thresholds
SuggestThresholds ==
    /\ op = "new"
    /\ result' = suggest_thresholds(params.raw_ms_values, params.warn_min, params.warn_max,
                                    params.block_min, params.block_max)
    /\ op' = "suggest_thresholds"
    /\ UNCHANGED <<gateVars, retrainVars, stream_metrics, clock, calls, threadVars>>

SuggestNext == SuggestThresholds

SuggestSpec == SuggestInit /\ [][SuggestNext]_vars

\* the present values of the call, negative ones counted as 0
Population == floored_values(params.raw_ms_values)

\* the value of 0-based rank k among the ascending values: at most k values
\* lie below it and more than k are at or below it
ValueOfRank(values, k) ==
    CHOOSE v \in {values[i] : i \in DOMAIN values} :
        /\ Cardinality({i \in DOMAIN values : values[i] < v}) <= k
        /\ Cardinality({i \in DOMAIN values : values[i] <= v}) > k

\* C28: suggest_thresholds returns warn = clamp(p95, warn_min, warn_max) and
\* block = clamp(p99, block_min, block_max), the percentile q being the value
\* of rank round(q * (n - 1)) among the ascending values with negative
\* inputs counted as 0, and (warn_min, block_min) for an empty population;
\* with min <= max both results lie inside their bands, and [10, 20, 30, 40,
\* 50] with bands [800, 2500] and [250, 750] gives (800, 250).
C28_SuggestedThresholds ==
    op = "suggest_thresholds" =>
        LET n == Len(Population)
        IN  /\ n = 0 => result = <<params.warn_min, params.block_min>>
            /\ n > 0 =>
                  /\ result[1] = ClampValue(
                         ValueOfRank(Population, RoundHalfEven(95 * (n - 1), 100)),
                         params.warn_min, params.warn_max)
                  /\ result[2] = ClampValue(
                         ValueOfRank(Population, RoundHalfEven(99 * (n - 1), 100)),
                         params.block_min, params.block_max)
            /\ params.warn_min <= params.warn_max =>
                  (params.warn_min <= result[1] /\ result[1] <= params.warn_max)
            /\ params.block_min <= params.block_max =>
                  (params.block_min <= result[2] /\ result[2] <= params.block_max)
            /\ (/\ params.raw_ms_values = TestPopulation
                /\ <<params.warn_min, params.warn_max>> = <<800, 2500>>
                /\ <<params.block_min, params.block_max>> = <<250, 750>>)
                  => result = <<800, 250>>

\* a population whose p95 and p99 differ and lie inside the bands
C28_Witness ==
    /\ op = "suggest_thresholds"
    /\ params.raw_ms_values = LongPopulation
    /\ result = <<1100, 1200>>

(***************************************************************************)
(* The stream loop feeding the tracker (dashboard_pygame.py lines 465-487):*)
(* each message is counted by on_event and its server time, kept in the    *)
(* loop's call field, handed to record_latency.                            *)
(***************************************************************************)
\* an absent server time, an unparsable one, and server times on both sides
\* of the skew limit, of zero, of the backlog limit and of the outlier limit
ClassifiedServerTimes ==
    { ServerTime(FALSE, FALSE, 0), ServerTime(TRUE, FALSE, 0) }
    \cup { ServerTime(TRUE, TRUE, lag_ms) :
             lag_ms \in {-251, -250, -1, 0, 2000, 2001, 5000, 10000, 10001} }

StreamLoopInit ==
    /\ config = clamp(BaseConfig)
    /\ state = TradeLatencyGateState
    /\ effective_samples = <<>>
    /\ hist = HistInit
    /\ op = "new"
    /\ fs = None
    /\ params = None
    /\ decision = None
    /\ stream_metrics = StreamMetrics(1)
    /\ clock = 0
    /\ result = NoResult
    /\ calls = 0
    /\ stream = StreamIdle
    /\ ui = None

\* line 487: record_latency(payload["time"], ts)
StreamRecordLatency ==
    /\ calls < MaxCalls
    /\ \E server_time \in ClassifiedServerTimes :
          /\ stream_metrics' = record_latency(stream_metrics, server_time, clock)
          /\ stream' = [StreamIdle EXCEPT !.call = Some(server_time)]
    /\ calls' = calls + 1
    /\ result' = NoResult
    /\ op' = "record_latency"
    /\ UNCHANGED <<gateVars, retrainVars, clock, ui>>

StreamLoopNext ==
    \/ OnEvent({"stream_message"})
    \/ StreamRecordLatency
    \/ Tick

StreamLoopSpec == StreamLoopInit /\ [][StreamLoopNext]_vars

\* the last call of record_latency had a server time that is present and parses
SampleRecorded ==
    /\ op = "record_latency"
    /\ Val(stream.call).given
    /\ Val(stream.call).parsable

\* C29: record_latency classifies every sample from its raw latency: for
\* -250 <= raw < 0 the sample is not an outlier, its stats value is 0 and
\* skew_ms is |raw|; raw < -250 is an outlier; backlog is set iff raw > 2000;
\* outlier is set iff raw < -250 or raw > 10000; so a gap of 5000 ms gives
\* backlog true and outlier false.
C29_SampleClassification ==
    SampleRecorded =>
        LET raw    == Val(stream.call).lag_ms
            m      == stream_metrics
            sample == m.latency_samples[Len(m.latency_samples)]
        IN  /\ m.last_latency_raw_ms = Some(raw)
            /\ sample.raw_ms = raw
            /\ sample.outlier = Val(m.last_outlier)
            /\ sample.backlog = Val(m.last_backlog)
            /\ sample.milliseconds = Val(m.last_latency_ms)
            /\ sample.skew_ms = m.last_skew_ms
            /\ (-250 <= raw /\ raw < 0) =>
                  /\ ~sample.outlier
                  /\ sample.milliseconds = 0
                  /\ sample.skew_ms = Some(-raw)
            /\ raw < -250 => sample.outlier
            /\ sample.backlog = (raw > 2000)
            /\ sample.outlier = (raw < -250 \/ raw > 10000)
            /\ raw = 5000 => (sample.backlog /\ ~sample.outlier)

\* a sample 5000 ms behind: backlog, not an outlier
C29_Witness ==
    /\ SampleRecorded
    /\ Val(stream.call).lag_ms = 5000
    /\ stream_metrics.last_backlog = Some(TRUE)
    /\ stream_metrics.last_outlier = Some(FALSE)

\* the last call of record_latency had no server time or one that does not parse
SampleIgnored(call) == call # None /\ (~Val(call).given \/ ~Val(call).parsable)

\* C30: record_latency() with a missing (None or empty) or unparsable server
\* timestamp leaves the whole tracker unchanged: counters, last_* fields,
\* clock_offset_ms, the latency window and the skew history.
C30_IgnoredSampleChangesNothing ==
    [][ (op' = "record_latency" /\ SampleIgnored(stream'.call))
            => stream_metrics' = stream_metrics ]_vars

\* an ignored call on a tracker that holds a counted message, a skew
\* magnitude and a sample older than the window
C30_Witness ==
    /\ op = "record_latency"
    /\ SampleIgnored(stream.call)
    /\ Val(stream.call).given
    /\ stream_metrics.messages_total > 0
    /\ stream_metrics.neg_skew_samples # <<>>
    /\ stream_metrics.latency_samples # <<>>
    /\ stream_metrics.latency_samples[1].timestamp < clock - stream_metrics.window_seconds
    /\ stream_metrics.last_latency_raw_ms # None

(***************************************************************************)
(* The tracker fed with events (dashboard_pygame.py lines 467-468), the    *)
(* event kept in the loop's call field, and queried in between.            *)
(***************************************************************************)
\* the three kinds on_event counts, and one it does not know
EventKinds == {"stream_message", "stream_error", "stream_reconnect_wait", "stream_open"}

\* line 468: state.stream_metrics.on_event(event)
StreamOnEvent ==
    /\ calls < MaxCalls
    /\ \E kind \in EventKinds :
          LET event == Event(kind, clock, IF kind = "stream_error" THEN Some("timeout") ELSE None)
          IN  /\ stream_metrics' = on_event(stream_metrics, event)
              /\ stream' = [StreamIdle EXCEPT !.call = Some(event)]
    /\ calls' = calls + 1
    /\ result' = NoResult
    /\ op' = "on_event"
    /\ UNCHANGED <<gateVars, retrainVars, clock, ui>>

EventNext ==
    \/ StreamOnEvent
    \/ MessagesPerSecond
    \/ Snapshot
    \/ Tick

EventSpec == StreamLoopInit /\ [][EventNext]_vars

\* 1 when the event of the step is of the kind, else 0
CountOf(event_kind, counted_kind) == IF event_kind = counted_kind THEN 1 ELSE 0

\* C31: each tracker event updates exactly its own counter: stream_message
\* adds one to messages_total, stream_error adds one to errors and records
\* last_error, stream_reconnect_wait adds one to reconnect_waits, no event
\* changes another counter, and no other step (a trim, a snapshot()) changes
\* any of the three, so each counter is the number of its events received.
C31_EventCountsItsOwnCounter ==
    [][ IF op' = "on_event"
        THEN LET event == Val(stream'.call)
             IN  /\ stream_metrics'.messages_total =
                        stream_metrics.messages_total
                        + CountOf(event.event, "stream_message")
                 /\ stream_metrics'.errors =
                        stream_metrics.errors + CountOf(event.event, "stream_error")
                 /\ stream_metrics'.reconnect_waits =
                        stream_metrics.reconnect_waits
                        + CountOf(event.event, "stream_reconnect_wait")
                 /\ event.event = "stream_error" =>
                        stream_metrics'.last_error = event.error
        ELSE /\ stream_metrics'.messages_total = stream_metrics.messages_total
             /\ stream_metrics'.errors = stream_metrics.errors
             /\ stream_metrics'.reconnect_waits = stream_metrics.reconnect_waits ]_vars

\* a second message arrived after an error, when the first message had left
\* the window
C31_Witness ==
    /\ op = "on_event"
    /\ Val(stream.call).event = "stream_message"
    /\ stream_metrics.messages_total = 2
    /\ Len(stream_metrics.message_ts) = 1
    /\ stream_metrics.errors = 1
    /\ stream_metrics.last_error = Some("timeout")
    /\ stream_metrics.reconnect_waits = 0

(***************************************************************************)
(* The stream loop's pass over one price message (dashboard_pygame.py      *)
(* lines 485-500): record_latency, then the gate's update with arguments   *)
(* read back from the tracker's last_* fields.                             *)
(***************************************************************************)
\* the gate the dashboard builds (line 740), past or in its cold start
StreamGateConfigs ==
    { clamp([TradeLatencyGateConfig("live", "EUR_USD") EXCEPT
                !.min_samples = n, !.consecutive_good_to_unblock = k]) :
        n \in {0, 2}, k \in {1, 2} }

\* price times: absent, an outlier by skew, a skewed one, a prompt one, a
\* backlog, an outlier by latency
StreamGateServerTimes ==
    {ServerTime(FALSE, FALSE, 0)}
    \cup {ServerTime(TRUE, TRUE, lag_ms) : lag_ms \in {-300, -100, 50, 5000, 10001}}

\* a float of the tracker as the float the gate compares
float_ms(r) == r[1] \div r[2]

\* lines 490-500: the arguments of trade_gate.update, from the tracker
gate_arguments(m, cfg) ==
    Call(m.last_latency_raw_ms,
         IF m.last_effective_ms = None THEN None
         ELSE Some(float_ms(Val(m.last_effective_ms))),
         m.last_backlog = Some(TRUE),
         /\ m.last_latency_raw_ms # None
         /\ Abs(Val(m.last_latency_raw_ms)) > cfg.outlier_high_ms,
         m.last_skew_ms)

StreamGateInit ==
    /\ config \in StreamGateConfigs
    /\ state = TradeLatencyGateState
    /\ effective_samples = <<>>
    /\ hist = HistInit
    /\ op = "new"
    /\ fs = None
    /\ params = None
    /\ decision = None
    /\ stream_metrics = StreamMetrics(1)
    /\ clock = 0
    /\ result = NoResult
    /\ calls = 0
    /\ stream = StreamIdle
    /\ ui = None

\* lines 485-500 for one PRICE message
StreamPrice ==
    /\ calls < MaxCalls
    /\ \E server_time \in StreamGateServerTimes :
          LET m == record_latency(stream_metrics, server_time, clock)
              c == gate_arguments(m, config)
          IN  /\ stream_metrics' = m
              /\ stream' = [StreamIdle EXCEPT !.sample = Some(server_time), !.call = Some(c)]
              /\ IF c.raw_ms = None /\ c.effective_ms = None
                 THEN UNCHANGED <<state, effective_samples, hist>>
                 ELSE /\ state' = UpdatedState(state, effective_samples, c.raw_ms,
                                               c.effective_ms, c.backlog, c.outlier,
                                               c.skew_ms, config)
                      /\ effective_samples' = UpdatedWindow(effective_samples,
                                                            c.effective_ms, c.outlier, config)
                      /\ hist' = HistAfter(hist, state, state', c.raw_ms, c.effective_ms,
                                           c.backlog, c.outlier, config)
    /\ calls' = calls + 1
    /\ result' = NoResult
    /\ op' = "price"
    /\ UNCHANGED <<config, retrainVars, clock, ui>>

StreamGateNext ==
    \/ StreamPrice
    \/ Tick

StreamGateSpec == StreamGateInit /\ [][StreamGateNext]_vars

\* the sample the tracker stored for the price message of the step
StoredSample(m) == m.latency_samples[Len(m.latency_samples)]

\* C32: the tracker's flags reach the gate intact: every price message whose
\* sample the tracker classifies as an outlier reaches update() with outlier
\* set, every backlog sample with backlog set, and the gate is blocked after
\* each of them.
C32_TrackerFlagsReachGate ==
    (op = "price" /\ Val(stream.sample).given) =>
        LET sample == StoredSample(stream_metrics)
            c == Val(stream.call)
        IN  /\ sample.outlier => c.outlier
            /\ sample.backlog => c.backlog
            /\ (sample.outlier \/ sample.backlog) => state.blocked

\* every latency the tracker hands over is a whole number of milliseconds
WholeMilliseconds ==
    stream_metrics.last_effective_ms # None => Val(stream_metrics.last_effective_ms)[2] = 1

(***************************************************************************)
(* The gate's hit streaks, over configurations with the warn threshold     *)
(* below and above the block threshold.                                    *)
(***************************************************************************)
HitConfigs ==
    { clamp(c) : c \in { s \in StreakConfigs : /\ s.consecutive_backlog_to_block = 2
                                               /\ s.consecutive_good_to_unblock = 2 } }

GateHitInit ==
    /\ config \in HitConfigs
    /\ state = TradeLatencyGateState
    /\ effective_samples = <<>>
    /\ hist = HistInit
    /\ op = "new"
    /\ fs = None
    /\ params = None
    /\ decision = None
    /\ NoTracker
    /\ stream = ApiStreamIdle
    /\ ui = ApiReaderIdle

GateHitSpec == GateHitInit /\ [][GateApiNext]_vars

\* the latency of a processed call: the effective value when given, else the raw
CallMs(c) == IF c.effective_ms # None THEN Val(c.effective_ms) ELSE Val(c.raw_ms)

\* C33: each processed sample is exactly one of bad hit, good hit or neither:
\* a bad hit (backlog or outlier or value >= block threshold) adds one to
\* consecutive_backlog and zeroes consecutive_good; a good hit (not a bad
\* hit, no flags, value < warn threshold) adds one to consecutive_good and
\* zeroes consecutive_backlog; a sample that is neither leaves both unchanged.
C33_HitStreaks ==
    [][ op' = "update" =>
          LET c    == Val(stream'.call)
              bad  == c.backlog \/ c.outlier \/ CallMs(c) >= config.backlog_block_ms
              good == ~bad /\ ~c.backlog /\ ~c.outlier /\ CallMs(c) < config.backlog_warn_ms
          IN  /\ bad =>
                    /\ state'.consecutive_backlog = state.consecutive_backlog + 1
                    /\ state'.consecutive_good = 0
              /\ good =>
                    /\ state'.consecutive_good = state.consecutive_good + 1
                    /\ state'.consecutive_backlog = 0
              /\ (~bad /\ ~good) =>
                    /\ state'.consecutive_good = state.consecutive_good
                    /\ state'.consecutive_backlog = state.consecutive_backlog ]_vars

\* a sample between the warn and the block threshold after a good hit: the
\* good streak is kept
C33_Witness ==
    /\ op = "update"
    /\ config.backlog_warn_ms = 20
    /\ config.backlog_block_ms = 40
    /\ Val(stream.call).effective_ms = Some(20)
    /\ ~Val(stream.call).backlog
    /\ ~Val(stream.call).outlier
    /\ state.total_samples = 2
    /\ state.consecutive_good = 1
    /\ state.consecutive_backlog = 0

\* C34: no chatter on unflagged spikes: an update() moves the gate from
\* unblocked to blocked only if the sample has backlog or outlier set or the
\* bad-hit streak has reached consecutive_backlog_to_block; a bad hit without
\* flags that leaves the streak shorter keeps an unblocked gate unblocked.
C34_NoChatter ==
    [][(~state.blocked /\ state'.blocked) =>
          /\ SampleStep
          /\ \/ Flagged(state')
             \/ state'.consecutive_backlog >= config.consecutive_backlog_to_block]_vars

\* an unblocked gate got an unflagged sample at or above the block threshold,
\* the first of a streak that needs two, and is still unblocked
C34_Witness ==
    /\ op = "update"
    /\ hist.hit = "bad"
    /\ ~Flagged(state)
    /\ state.last_effective_ms = Some(40)
    /\ config.backlog_block_ms = 40
    /\ state.consecutive_backlog = 1
    /\ config.consecutive_backlog_to_block = 2
    /\ ~hist.prev_blocked
    /\ ~state.blocked

\* C35: update() called with raw_ms = None and effective_ms = None is
\* ignored: it changes no field of the state (total_samples, counters,
\* streaks, blocked, latch) and not the percentile window, whatever the
\* backlog and outlier arguments are.
C35_EmptyCallIgnored ==
    [][op' = "update_ignored" =>
          /\ state' = state
          /\ effective_samples' = effective_samples]_vars

\* a call without latency was made on an unblocked gate holding a window of
\* two values
C35_Witness ==
    /\ op = "update_ignored"
    /\ ~state.blocked
    /\ state.total_samples >= 2
    /\ Len(effective_samples) = 2
    /\ state.last_backlog = Some(FALSE)
    /\ state.last_outlier = Some(FALSE)

(***************************************************************************)
(* The tracker fed with clock-skewed samples and outliers at one receipt   *)
(* time.                                                                   *)
(***************************************************************************)
MaxOutliers == 1

\* price times classified as outliers: by skew, and by latency
OutlierServerTimes == {ServerTime(TRUE, TRUE, -300), ServerTime(TRUE, TRUE, 10001)}

\* the outliers among the samples held
OutlierSamples(m) == SelectSeq(m.latency_samples, LAMBDA s : s.outlier)

\* record_latency with an outlier, after any number of skewed samples
RecordOutlier ==
    /\ Len(OutlierSamples(stream_metrics)) < MaxOutliers
    /\ \E server_time \in OutlierServerTimes :
          stream_metrics' = record_latency(stream_metrics, server_time, clock)
    /\ calls' = calls + 1
    /\ result' = NoResult
    /\ op' = "record_outlier"
    /\ UNCHANGED <<gateVars, retrainVars, clock, threadVars>>

OutlierNext ==
    \/ RecordLatency(SkewedServerTimes, MaxSkewCalls)
    \/ RecordOutlier

OutlierSpec == TrackerInit({1}) /\ [][OutlierNext]_vars

\* C36: an outlier cannot desensitize the tracker: a record_latency() whose
\* sample is classified as outlier leaves the skew history and
\* clock_offset_ms unchanged, and the p95 and mean of latency_stats() and
\* effective_latency_stats() after it are those before it.
C36_OutlierLeavesOffset ==
    [][ op' = "record_outlier" /\ calls' = calls + 1 =>
          /\ StoredSample(stream_metrics').outlier
          /\ stream_metrics'.neg_skew_samples = stream_metrics.neg_skew_samples
          /\ stream_metrics'.clock_offset_ms = stream_metrics.clock_offset_ms
          /\ latency_stats(stream_metrics')[2] = latency_stats(stream_metrics)[2]
          /\ latency_stats(stream_metrics')[3] = latency_stats(stream_metrics)[3]
          /\ effective_latency_stats(stream_metrics')[2] =
                 effective_latency_stats(stream_metrics)[2]
          /\ effective_latency_stats(stream_metrics')[3] =
                 effective_latency_stats(stream_metrics)[3] ]_vars

\* the same without the clock offset
OutlierLeavesHistoryAndStats ==
    [][ op' = "record_outlier" /\ calls' = calls + 1 =>
          /\ StoredSample(stream_metrics').outlier
          /\ stream_metrics'.neg_skew_samples = stream_metrics.neg_skew_samples
          /\ latency_stats(stream_metrics')[2] = latency_stats(stream_metrics)[2]
          /\ latency_stats(stream_metrics')[3] = latency_stats(stream_metrics)[3]
          /\ effective_latency_stats(stream_metrics')[2] =
                 effective_latency_stats(stream_metrics)[2]
          /\ effective_latency_stats(stream_metrics')[3] =
                 effective_latency_stats(stream_metrics)[3] ]_vars

\* C37: in every decision, whatever its reason, window_n equals the number
\* of scoring records read for that evaluation, at most the configured
\* window size.
C37_WindowCountsRecords ==
    op = "evaluate" =>
        /\ decision.window_n = Len(ScoreRecords)
        /\ decision.window_n <= params.window_n

\* the same for the decisions made on at least one record with a window of
\* at least one record
WindowCountsRecordsRead ==
    (op = "evaluate" /\ ~CoverageNull /\ params.window_n >= 1) =>
        /\ decision.window_n = Len(ScoreRecords)
        /\ decision.window_n <= params.window_n

\* the last n values of a sequence, in order
LastOf(s, n) == [i \in 1..Min(Len(s), n) |-> s[Len(s) - Min(Len(s), n) + i]]

\* C38: the percentile window is a bounded FIFO: after every update() it
\* holds at most effective_window_size values, the most recent non-outlier
\* effective latencies in arrival order (a processed call with an effective
\* latency and no outlier flag appends its value and the oldest values beyond
\* the size are dropped, any other call leaves the window as it is), and
\* last_effective_p95_ms and last_effective_mean_ms are those of that window.
C38_WindowIsBoundedFifo ==
    [][ (op' = "update" \/ op' = "update_ignored") =>
          LET c == Val(stream'.call)
              accepted == op' = "update" /\ c.effective_ms # None /\ ~c.outlier
              arrived == IF accepted
                         THEN effective_samples \o <<Val(c.effective_ms)>>
                         ELSE effective_samples
          IN  /\ effective_samples' = LastOf(arrived, config.effective_window_size)
              /\ Len(effective_samples') <= config.effective_window_size
              /\ state'.last_effective_p95_ms = effective_stats(effective_samples')[1]
              /\ state'.last_effective_mean_ms = effective_stats(effective_samples')[2] ]_vars

\* three samples with an effective latency arrived at a window of two: the
\* first is gone, the two others are held in arrival order
C38_Witness ==
    /\ op = "update"
    /\ config.effective_window_size = 2
    /\ state.total_samples = 3
    /\ state.skew_samples = 3
    /\ effective_samples = <<40, 0>>
    /\ state.last_effective_p95_ms = Some(40)
    /\ state.last_effective_mean_ms = Some(<<40, 2>>)

(***************************************************************************)
(* OandaStreamClient._stream (src/src/oanda_autotrader/streaming.py), one  *)
(* iteration of the generator from its first line to its end.  params is   *)
(* the client (reconnect, max_retries, the backoff settings in ms); stream *)
(* holds the generator's position, its attempt counter, the delay it       *)
(* sleeps and the number of messages it has yielded.                       *)
(***************************************************************************)
MaxAttempts == 4
MaxMessages == 2

\* the dataclass fields of lines 40-43
OandaStreamClient(reconnect, max_retries) ==
    [ reconnect            |-> reconnect,
      max_retries          |-> max_retries,
      backoff_base_seconds |-> 500,
      backoff_max_seconds  |-> 15000 ]

StreamClients ==
    { OandaStreamClient(reconnect, max_retries) :
        reconnect \in BOOLEAN, max_retries \in {None, Some(0), Some(1), Some(2)} }

RECURSIVE Pow2(_)
Pow2(n) == IF n = 0 THEN 1 ELSE 2 * Pow2(n - 1)

\* line 99: min(backoff_base_seconds * 2 ** (attempt - 1), backoff_max_seconds)
backoff_delay(client, attempt) ==
    Min(client.backoff_base_seconds * Pow2(attempt - 1), client.backoff_max_seconds)

\* line 100: random.uniform(0, 0.25 * delay), its two ends
Jitter(delay) == {0, delay \div 4}

\* line 73 and the top of the loop
StreamOpened == [pc |-> "connect", attempt |-> 0, delay |-> None, messages |-> 0]

\* mutation for C39: the stream ends when the attempts reach max_retries
after_disconnect_EndsAtLimit(client, s, jitter) ==
    LET attempt == s.attempt + 1
    IN  IF client.max_retries # None /\ attempt >= Val(client.max_retries)
        THEN [s EXCEPT !.pc = "ended", !.attempt = attempt]
        ELSE [s EXCEPT !.pc = "backoff", !.attempt = attempt,
                       !.delay = Some(backoff_delay(client, attempt) + jitter)]

\* lines 95-101: count the attempt, end beyond max_retries, else back off
after_disconnect(client, s, jitter) ==
    LET attempt == s.attempt + 1
    IN  IF client.max_retries # None /\ attempt > Val(client.max_retries)
        THEN [s EXCEPT !.pc = "ended", !.attempt = attempt]
        ELSE [s EXCEPT !.pc = "backoff", !.attempt = attempt,
                       !.delay = Some(backoff_delay(client, attempt) + jitter)]

StreamClientInit ==
    /\ config = clamp(BaseConfig)
    /\ state = TradeLatencyGateState
    /\ effective_samples = <<>>
    /\ hist = HistInit
    /\ op = "new"
    /\ fs = None
    /\ params \in StreamClients
    /\ decision = None
    /\ NoTracker
    /\ stream = StreamOpened
    /\ ui = None

\* lines 77-78: the request is answered with a success status
Connected ==
    /\ stream.pc = "connect"
    /\ stream' = [stream EXCEPT !.pc = "reading"]
    /\ op' = "connected"
    /\ UNCHANGED <<gateVars, retrainVars, trackerVars, ui>>

\* lines 79-88: a line of the response: blank and malformed lines are
\* skipped, a JSON object is yielded
ReadLine ==
    /\ stream.pc = "reading"
    /\ \E line \in {"blank", "malformed", "message"} :
          IF line = "message"
          THEN /\ stream.messages < MaxMessages
               /\ stream' = [stream EXCEPT !.messages = @ + 1]
               /\ op' = "message"
          ELSE /\ UNCHANGED stream
               /\ op' = "skipped"
    /\ UNCHANGED <<gateVars, retrainVars, trackerVars, ui>>

\* lines 89-91 and 95-101: the response ends cleanly
CleanEnd ==
    /\ stream.pc = "reading"
    /\ stream.attempt < MaxAttempts
    /\ IF ~params.reconnect
       THEN stream' = [stream EXCEPT !.pc = "ended"]
       ELSE \E jitter \in Jitter(backoff_delay(params, stream.attempt + 1)) :
               stream' = after_disconnect(params, stream, jitter)
    /\ op' = "clean_end"
    /\ UNCHANGED <<gateVars, retrainVars, trackerVars, ui>>

\* lines 92-94 and 95-101: aiohttp.ClientError or asyncio.TimeoutError from
\* the request, from raise_for_status or from reading the response
ConnectionError ==
    /\ stream.pc \in {"connect", "reading"}
    /\ stream.attempt < MaxAttempts
    /\ IF ~params.reconnect
       THEN stream' = [stream EXCEPT !.pc = "raised"]
       ELSE \E jitter \in Jitter(backoff_delay(params, stream.attempt + 1)) :
               stream' = after_disconnect(params, stream, jitter)
    /\ op' = "connection_error"
    /\ UNCHANGED <<gateVars, retrainVars, trackerVars, ui>>

\* line 101: the sleep is over
BackoffOver ==
    /\ stream.pc = "backoff"
    /\ stream' = [stream EXCEPT !.pc = "connect", !.delay = None]
    /\ op' = "backoff_over"
    /\ UNCHANGED <<gateVars, retrainVars, trackerVars, ui>>

StreamClientNext ==
    \/ Connected
    \/ ReadLine
    \/ CleanEnd
    \/ ConnectionError
    \/ BackoffOver

StreamClientSpec == StreamClientInit /\ [][StreamClientNext]_vars

C39_UnboundedWitness ==
    /\ params.reconnect
    /\ params.max_retries = None
    /\ stream.attempt = MaxAttempts
    /\ stream.pc = "backoff"

(***************************************************************************)
(* RateLimiter and AsyncRateLimiter (src/src/oanda_autotrader/             *)
(* rate_limit.py).  clock is time.perf_counter() in ticks of half a        *)
(* second; params is the limiter's class and _max; stream holds            *)
(* _timestamps and the owner of _lock; ui is each caller's position in     *)
(* wait(); hist lists the completed calls: the reading of line 28 / 53,    *)
(* the reading appended at line 36 / 61, and whether the call slept.       *)
(***************************************************************************)
MaxWaitCalls == 3
MaxPerfCounter == 4

\* the 1.0 of lines 29 and 33, in ticks
Second == 2

\* one thread calls a RateLimiter; two coroutines share an AsyncRateLimiter
Callers(limiter) == IF limiter = "RateLimiter" THEN {1} ELSE {1, 2}

CallerIdle == [pc |-> "idle", now |-> None, wake |-> None]

\* lines 30-31: popleft() while the oldest timestamp is before window_start
RECURSIVE evicted(_, _)
evicted(timestamps, window_start) ==
    IF timestamps # <<>> /\ Head(timestamps) < window_start
    THEN evicted(Tail(timestamps), window_start)
    ELSE timestamps

\* line 33
sleep_for(now, timestamps) == Second - (now - Head(timestamps))

\* lines 32-34: the limiter is full and the oldest call is less than a
\* second old
must_sleep(max, now, timestamps) ==
    /\ Len(timestamps) >= max
    /\ sleep_for(now, timestamps) > 0

RateLimitInit ==
    /\ config = clamp(BaseConfig)
    /\ state = TradeLatencyGateState
    /\ effective_samples = <<>>
    /\ hist = <<>>
    /\ op = "new"
    /\ fs = None
    /\ params \in { [limiter |-> l, max |-> max] :
                      l \in {"RateLimiter", "AsyncRateLimiter"}, max \in {1, 2} }
    /\ decision = None
    /\ stream_metrics = None
    /\ clock = 0
    /\ result = None
    /\ calls = 0
    /\ stream = [timestamps |-> <<>>, lock |-> None]
    /\ ui = [caller \in {1, 2} |-> CallerIdle]

\* a caller calls wait()
Wait(caller) ==
    /\ caller \in Callers(params.limiter)
    /\ ui[caller].pc = "idle"
    /\ calls < MaxWaitCalls
    /\ calls' = calls + 1
    /\ ui' = [ui EXCEPT ![caller].pc = "lock"]
    /\ op' = "wait"
    /\ UNCHANGED <<gateVars, retrainVars, stream_metrics, clock, result, stream>>

\* lines 28-35 (52-60 under the lock): read the clock, drop the old
\* timestamps, sleep if the limiter is full.  With distinct set, the reading
\* is later than every reading taken before.
Enter(caller, distinct) ==
    /\ ui[caller].pc = "lock"
    /\ stream.lock = None
    /\ IF distinct /\ hist # <<>> THEN clock > hist[Len(hist)].completed ELSE TRUE
    /\ LET now == clock
           timestamps == evicted(stream.timestamps, now - Second)
       IN  /\ stream' = [timestamps |-> timestamps, lock |-> Some(caller)]
           /\ ui' = [ui EXCEPT ![caller] =
                        IF must_sleep(params.max, now, timestamps)
                        THEN [pc |-> "sleep", now |-> Some(now),
                              wake |-> Some(now + sleep_for(now, timestamps))]
                        ELSE [pc |-> "append", now |-> Some(now), wake |-> None]]
    /\ op' = "enter"
    /\ UNCHANGED <<gateVars, retrainVars, trackerVars>>

\* line 35 (60): the sleep returns, at its time or later
SleepOver(caller) ==
    /\ ui[caller].pc = "sleep"
    /\ clock >= Val(ui[caller].wake)
    /\ ui' = [ui EXCEPT ![caller].pc = "append"]
    /\ op' = "sleep_over"
    /\ UNCHANGED <<gateVars, retrainVars, trackerVars, stream>>

\* line 36 (61): append the clock's reading, leave the lock, return
AppendTimestamp(caller) ==
    /\ ui[caller].pc = "append"
    /\ stream' = [timestamps |-> Append(stream.timestamps, clock), lock |-> None]
    /\ hist' = Append(hist, [arrived   |-> Val(ui[caller].now),
                             completed |-> clock,
                             slept     |-> ui[caller].wake # None])
    /\ ui' = [ui EXCEPT ![caller] = CallerIdle]
    /\ op' = "completed"
    /\ UNCHANGED <<config, state, effective_samples, retrainVars, trackerVars>>

\* time passes
PerfCounterTick ==
    /\ clock < MaxPerfCounter
    /\ clock' = clock + 1
    /\ op' = "tick"
    /\ UNCHANGED <<gateVars, retrainVars, stream_metrics, result, calls, threadVars>>

RateLimitNext ==
    \/ \E caller \in {1, 2} : Wait(caller)
    \/ \E caller \in {1, 2} : Enter(caller, FALSE)
    \/ \E caller \in {1, 2} : SleepOver(caller)
    \/ \E caller \in {1, 2} : AppendTimestamp(caller)
    \/ PerfCounterTick

RateLimitSpec == RateLimitInit /\ [][RateLimitNext]_vars

\* the same with every call's first reading later than the readings before it
DistinctReadingsNext ==
    \/ \E caller \in {1, 2} : Wait(caller)
    \/ \E caller \in {1, 2} : Enter(caller, TRUE)
    \/ \E caller \in {1, 2} : SleepOver(caller)
    \/ \E caller \in {1, 2} : AppendTimestamp(caller)
    \/ PerfCounterTick

DistinctReadingsSpec == RateLimitInit /\ [][DistinctReadingsNext]_vars

\* the calls among the first n that completed after time t
CompletedAfter(t, n) == {j \in 1..n : hist[j].completed > t}

\* C40: the limiters keep the request rate under the limit: in every
\* interval of one second that ends with a completed call at most max calls
\* complete, and a call that arrives when max calls have completed within
\* the last second sleeps before it completes, for one caller of a
\* RateLimiter and for concurrent callers of an AsyncRateLimiter.
C40_RateUnderLimit ==
    \A i \in 1..Len(hist) :
        /\ Cardinality({j \in CompletedAfter(hist[i].completed - Second, Len(hist)) :
                           hist[j].completed <= hist[i].completed}) <= params.max
        /\ Cardinality(CompletedAfter(hist[i].arrived - Second, i - 1)) >= params.max
              => hist[i].slept

====
